---- MODULE Spec2Model ----
(***************************************************************************)
(* Model of the perceptor core model (pkg/core/model.go, the variant with  *)
(* the hub-check queue): pods, image records, the hub-check queue, the     *)
(* scan queue and the concurrency gate.  Every operation of the Go type    *)
(* Model is an operator on a model record m; an action applies one         *)
(* operation to the current model and stores the outcome.                  *)
(***************************************************************************)
EXTENDS Integers, Sequences, FiniteSets, TLC

VARIABLES
    Pods,                \* model.Pods: qualified name -> pod
    Images,              \* model.Images: sha -> *ImageInfo
    ImageScanQueue,      \* model.ImageScanQueue
    ImageHubCheckQueue,  \* model.ImageHubCheckQueue
    ConcurrentScanLimit, \* model.ConcurrentScanLimit
    last,                \* the last call: operation, argument and returned value
    fatal,               \* TRUE once an operation has panicked
    regOrder,            \* history: shas in the order their records were created
    hubReturned,         \* history: shas in the order the hub-check dequeue returned them
    scanHandedOut,       \* history: shas returned by the scan dequeue, no scan error reported since
    errCount,            \* history: failed attempts of the unfinished scan of each sha (saturating at MaxErrors)
    simple,              \* the Model of the variant without the hub-check stage, run side by side
    callers,             \* the callers of getNextImageFromScanQueue and where each is in its call
    metrics,             \* the metrics object: latestModel, the gauges, and its goroutine
    version,             \* a hub Version and the answer of IsImageScanDone for it
    perceiver,           \* the loops of the perceiver's main and the exchanges they make
    hubFetcher           \* the HubFetcher handed out by NewHubFetcher, and the last call on it

modelVars == <<Pods, Images, ImageScanQueue, ImageHubCheckQueue, ConcurrentScanLimit>>
histVars == <<regOrder, hubReturned, scanHandedOut, errCount>>
\* the state outside of the Model with the hub-check stage
extVars == <<simple, callers, metrics, version, perceiver, hubFetcher>>
vars == <<Pods, Images, ImageScanQueue, ImageHubCheckQueue, ConcurrentScanLimit,
          last, fatal, regOrder, hubReturned, scanHandedOut, errCount,
          simple, callers, metrics, version, perceiver, hubFetcher>>

----------------------------------------------------------------------------
(* Bounds of the model *)

MaxLimit == 1
MaxErrors == 2

Shas == {1, 2}
FifoShas == {1, 2, 3}
AllShas == Shas \cup FifoShas
PodNames == {"ns/a", "ns/b"}
Limits == -1..MaxLimit

----------------------------------------------------------------------------
(* Entities *)

ScanStatusUnknown == "Unknown"
ScanStatusInHubCheckQueue == "InHubCheckQueue"
ScanStatusCheckingHub == "CheckingHub"
ScanStatusInQueue == "InQueue"
ScanStatusRunningScanClient == "RunningScanClient"
ScanStatusRunningHubScan == "RunningHubScan"
ScanStatusComplete == "Complete"
ScanStatusError == "Error"

Nil == [nil |-> TRUE]
NoError == ""
Void == [kind |-> "void"]

\* The image references of the cluster: one per sha, and sha 1 under a second name.
Image == { [Sha |-> s, Name |-> "img"] : s \in Shas } \cup { [Sha |-> 1, Name |-> "img:alt"] }

FifoImage == { [Sha |-> s, Name |-> "img"] : s \in FifoShas }

\* Results of an analysis: the two of the scenario of spec section 8, and one with
\* a second label that differs from the "no violation" sentinel.
ScanResultsValues ==
    { [PolicyViolationCount |-> 2, VulnerabilityCount |-> 5, OverallStatus |-> "IN_VIOLATION"],
      [PolicyViolationCount |-> 0, VulnerabilityCount |-> 1, OverallStatus |-> "NOT_IN_VIOLATION"],
      [PolicyViolationCount |-> 1, VulnerabilityCount |-> 0, OverallStatus |-> "IN_VIOLATION_OVERRIDDEN"] }

FifoScanResults ==
    [PolicyViolationCount |-> 0, VulnerabilityCount |-> 1, OverallStatus |-> "NOT_IN_VIOLATION"]

NewImageInfo(sha, name) ==
    [ImageSha |-> sha, ImageName |-> name,
     ScanStatus |-> ScanStatusUnknown, ScanResults |-> Nil]

image(imageInfo) == [Sha |-> imageInfo.ImageSha, Name |-> imageInfo.ImageName]

Cont(sha, name) == [Image |-> [Sha |-> sha, Name |-> name]]

\* The container lists of the pod snapshots the cluster delivers.
ContainerLists ==
    { << Cont(1, "img"), Cont(2, "img") >>,
      << Cont(2, "img"), Cont(1, "img:alt") >>,
      << Cont(1, "img"), Cont(2, "img"), Cont(2, "img") >> }

PodValues == { [QualifiedName |-> q, Containers |-> cs] :
                 q \in PodNames, cs \in ContainerLists }

FifoPodValues == { [QualifiedName |-> "ns/a",
                    Containers |-> << Cont(3, "img"), Cont(1, "img") >>] }

\* The pods of the resynchronisation scenario: pod a alone references image 1,
\* pod c comes as two snapshots, the first of which alone references image 3
\* once the second has replaced it.
ResyncPodNames == {"ns/a", "ns/b", "ns/c"}

ResyncPodValues ==
    { [QualifiedName |-> "ns/a", Containers |-> << Cont(1, "img") >>],
      [QualifiedName |-> "ns/b", Containers |-> << Cont(2, "img") >>],
      [QualifiedName |-> "ns/c", Containers |-> << Cont(3, "img"), Cont(2, "img") >>],
      [QualifiedName |-> "ns/c", Containers |-> << Cont(2, "img") >>] }

\* The image that is also registered and worked on directly in that scenario;
\* images 1 and 3 get their records from pods only.
ResyncImage == { [Sha |-> 2, Name |-> "img"] }

\* The payloads of the all-pods push: at most one snapshot per name, in name order.
ResyncPayloads ==
    { ps \in UNION { [1..n -> ResyncPodValues] : n \in 0..3 } :
        \A j, k \in 1..Len(ps) :
           j < k => \/ ps[j].QualifiedName = "ns/a" /\ ps[k].QualifiedName # "ns/a"
                    \/ ps[j].QualifiedName = "ns/b" /\ ps[k].QualifiedName = "ns/c" }

----------------------------------------------------------------------------
(* The model as a value, and the operations of Model on it *)

Cur == [Pods |-> Pods, Images |-> Images,
        ImageScanQueue |-> ImageScanQueue,
        ImageHubCheckQueue |-> ImageHubCheckQueue,
        ConcurrentScanLimit |-> ConcurrentScanLimit,
        panicked |-> FALSE, ret |-> Void]

NewModel(concurrentScanLimit) ==
    [Pods |-> << >>, Images |-> << >>,
     ImageScanQueue |-> << >>, ImageHubCheckQueue |-> << >>,
     ConcurrentScanLimit |-> concurrentScanLimit,
     panicked |-> FALSE, ret |-> Void]

Panic(m) == [m EXCEPT !.panicked = TRUE]

safeGetOk(m, sha) == sha \in DOMAIN m.Images

MapPut(f, k, v) == [x \in (DOMAIN f) \cup {k} |-> IF x = k THEN v ELSE f[x]]

MapDelete(f, k) == [x \in (DOMAIN f) \ {k} |-> f[x]]

\* faulty variant: also drops the records of the images of the deleted pod
DeletePod_Evict(m, podName) ==
    IF podName \notin DOMAIN m.Pods THEN m
    ELSE LET gone == { m.Pods[podName].Containers[k].Image.Sha :
                         k \in 1..Len(m.Pods[podName].Containers) }
         IN  [m EXCEPT !.Pods = MapDelete(@, podName),
                       !.Images = [x \in (DOMAIN @) \ gone |-> @[x]]]

DeletePod(m, podName) ==
    [m EXCEPT !.Pods = MapDelete(@, podName)]

\* faulty variant: queues at the head
addImageToHubCheckQueue_Prepend(m, sha) ==
    IF ~safeGetOk(m, sha) THEN Panic(m)
    ELSE IF m.Images[sha].ScanStatus \notin {ScanStatusUnknown, ScanStatusError} THEN Panic(m)
    ELSE [m EXCEPT !.Images[sha].ScanStatus = ScanStatusInHubCheckQueue,
                   !.ImageHubCheckQueue = << image(m.Images[sha]) >> \o @]

addImageToHubCheckQueue(m, sha) ==
    IF ~safeGetOk(m, sha) THEN Panic(m)
    ELSE IF m.Images[sha].ScanStatus \notin {ScanStatusUnknown, ScanStatusError} THEN Panic(m)
    ELSE [m EXCEPT !.Images[sha].ScanStatus = ScanStatusInHubCheckQueue,
                   !.ImageHubCheckQueue = Append(@, image(m.Images[sha]))]

\* faulty variant: queues at the head
addImageToScanQueue_Prepend(m, sha) ==
    IF ~safeGetOk(m, sha) THEN Panic(m)
    ELSE IF m.Images[sha].ScanStatus \notin {ScanStatusCheckingHub, ScanStatusError} THEN Panic(m)
    ELSE [m EXCEPT !.Images[sha].ScanStatus = ScanStatusInQueue,
                   !.ImageScanQueue = << image(m.Images[sha]) >> \o @]

\* faulty variant: an image whose analysis is complete may be queued for a scan again
addImageToScanQueue_Rescan(m, sha) ==
    IF ~safeGetOk(m, sha) THEN Panic(m)
    ELSE IF m.Images[sha].ScanStatus \notin
              {ScanStatusCheckingHub, ScanStatusError, ScanStatusComplete} THEN Panic(m)
    ELSE [m EXCEPT !.Images[sha].ScanStatus = ScanStatusInQueue,
                   !.ImageScanQueue = Append(@, image(m.Images[sha]))]

addImageToScanQueue(m, sha) ==
    IF ~safeGetOk(m, sha) THEN Panic(m)
    ELSE IF m.Images[sha].ScanStatus \notin {ScanStatusCheckingHub, ScanStatusError} THEN Panic(m)
    ELSE [m EXCEPT !.Images[sha].ScanStatus = ScanStatusInQueue,
                   !.ImageScanQueue = Append(@, image(m.Images[sha]))]

\* faulty variant: an image known under another name is registered anew
AddImage_NameKeyed(m, img) ==
    IF img.Sha \notin DOMAIN m.Images \/ m.Images[img.Sha].ImageName # img.Name
    THEN addImageToHubCheckQueue(
            [m EXCEPT !.Images = MapPut(@, img.Sha, NewImageInfo(img.Sha, img.Name))],
            img.Sha)
    ELSE m

AddImage(m, img) ==
    IF img.Sha \notin DOMAIN m.Images
    THEN addImageToHubCheckQueue(
            [m EXCEPT !.Images = MapPut(@, img.Sha, NewImageInfo(img.Sha, img.Name))],
            img.Sha)
    ELSE m

RECURSIVE AddPodContainers(_, _, _)
AddPodContainers(m, containers, i) ==
    IF i > Len(containers) \/ m.panicked THEN m
    ELSE AddPodContainers(AddImage(m, containers[i].Image), containers, i + 1)

\* faulty variant: a pod that is already in the model keeps its earlier snapshot
AddPod_KeepOld(m, newPod) ==
    LET m1 == AddPodContainers(m, newPod.Containers, 1)
    IN  IF m1.panicked THEN m1
        ELSE IF newPod.QualifiedName \in DOMAIN m1.Pods THEN m1
        ELSE [m1 EXCEPT !.Pods = MapPut(@, newPod.QualifiedName, newPod)]

AddPod(m, newPod) ==
    LET m1 == AddPodContainers(m, newPod.Containers, 1)
    IN  IF m1.panicked THEN m1
        ELSE [m1 EXCEPT !.Pods = MapPut(@, newPod.QualifiedName, newPod)]

RECURSIVE DeletePods(_, _)
DeletePods(m, names) ==
    IF names = {} THEN m
    ELSE LET n == CHOOSE x \in names : TRUE
         IN  DeletePods(DeletePod(m, n), names \ {n})

RECURSIVE AddPods(_, _, _)
AddPods(m, pods, i) ==
    IF i > Len(pods) \/ m.panicked THEN m
    ELSE AddPods(AddPod(m, pods[i]), pods, i + 1)

\* The bulk replace of the pod set: the pods whose name is not in the payload are
\* deleted, then every pod of the payload is added or replaced.
SetAllPods(m, pods) ==
    LET named == { pods[k].QualifiedName : k \in 1..Len(pods) }
    IN  AddPods(DeletePods(m, (DOMAIN m.Pods) \ named), pods, 1)

inProgressScanJobs(m) ==
    { sha \in DOMAIN m.Images :
        m.Images[sha].ScanStatus \in {ScanStatusRunningScanClient, ScanStatusRunningHubScan} }

inProgressScanCount(m) == Cardinality(inProgressScanJobs(m))

inProgressHubScans(m) ==
    { image(m.Images[sha]) : sha \in { s \in DOMAIN m.Images :
                                m.Images[s].ScanStatus = ScanStatusRunningHubScan } }

\* faulty variant: the returned image keeps the status InHubCheckQueue
getNextImageFromHubCheckQueue_KeepStatus(m) ==
    IF Len(m.ImageHubCheckQueue) = 0 THEN [m EXCEPT !.ret = Nil]
    ELSE LET first == m.ImageHubCheckQueue[1]
         IN  IF ~safeGetOk(m, first.Sha) THEN Panic(m)
             ELSE IF m.Images[first.Sha].ScanStatus # ScanStatusInHubCheckQueue THEN Panic(m)
             ELSE [m EXCEPT !.ImageHubCheckQueue = Tail(@),
                            !.ret = first]

getNextImageFromHubCheckQueue(m) ==
    IF Len(m.ImageHubCheckQueue) = 0 THEN [m EXCEPT !.ret = Nil]
    ELSE LET first == m.ImageHubCheckQueue[1]
         IN  IF ~safeGetOk(m, first.Sha) THEN Panic(m)
             ELSE IF m.Images[first.Sha].ScanStatus # ScanStatusInHubCheckQueue THEN Panic(m)
             ELSE [m EXCEPT !.Images[first.Sha].ScanStatus = ScanStatusCheckingHub,
                            !.ImageHubCheckQueue = Tail(@),
                            !.ret = first]

\* faulty variant: the head stays in the queue
getNextImageFromScanQueue_NoPop(m) ==
    IF inProgressScanCount(m) >= m.ConcurrentScanLimit THEN [m EXCEPT !.ret = Nil]
    ELSE IF Len(m.ImageScanQueue) = 0 THEN [m EXCEPT !.ret = Nil]
    ELSE LET first == m.ImageScanQueue[1]
         IN  IF ~safeGetOk(m, first.Sha) THEN Panic(m)
             ELSE IF m.Images[first.Sha].ScanStatus # ScanStatusInQueue THEN Panic(m)
             ELSE [m EXCEPT !.Images[first.Sha].ScanStatus = ScanStatusRunningScanClient,
                            !.ret = first]

\* faulty variant: the gate closes one scan too late
getNextImageFromScanQueue_OffByOne(m) ==
    IF inProgressScanCount(m) > m.ConcurrentScanLimit THEN [m EXCEPT !.ret = Nil]
    ELSE IF Len(m.ImageScanQueue) = 0 THEN [m EXCEPT !.ret = Nil]
    ELSE LET first == m.ImageScanQueue[1]
         IN  IF ~safeGetOk(m, first.Sha) THEN Panic(m)
             ELSE IF m.Images[first.Sha].ScanStatus # ScanStatusInQueue THEN Panic(m)
             ELSE [m EXCEPT !.Images[first.Sha].ScanStatus = ScanStatusRunningScanClient,
                            !.ImageScanQueue = Tail(@),
                            !.ret = first]

getNextImageFromScanQueue(m) ==
    IF inProgressScanCount(m) >= m.ConcurrentScanLimit THEN [m EXCEPT !.ret = Nil]
    ELSE IF Len(m.ImageScanQueue) = 0 THEN [m EXCEPT !.ret = Nil]
    ELSE LET first == m.ImageScanQueue[1]
         IN  IF ~safeGetOk(m, first.Sha) THEN Panic(m)
             ELSE IF m.Images[first.Sha].ScanStatus # ScanStatusInQueue THEN Panic(m)
             ELSE [m EXCEPT !.Images[first.Sha].ScanStatus = ScanStatusRunningScanClient,
                            !.ImageScanQueue = Tail(@),
                            !.ret = first]

\* faulty variant: a failed image goes back to the hub-check queue
errorRunningScanClient_ToHubCheck(m, img) ==
    IF ~safeGetOk(m, img.Sha) THEN Panic(m)
    ELSE IF m.Images[img.Sha].ScanStatus # ScanStatusRunningScanClient THEN Panic(m)
    ELSE addImageToHubCheckQueue(
            [m EXCEPT !.Images[img.Sha].ScanStatus = ScanStatusError], img.Sha)

\* faulty variant: the failed image is left in Error and not queued again
errorRunningScanClient_NoRequeue(m, img) ==
    IF ~safeGetOk(m, img.Sha) THEN Panic(m)
    ELSE IF m.Images[img.Sha].ScanStatus # ScanStatusRunningScanClient THEN Panic(m)
    ELSE [m EXCEPT !.Images[img.Sha].ScanStatus = ScanStatusError]

\* faulty variant: a report for an image that is not being scanned is ignored
errorRunningScanClient_Silent(m, img) ==
    IF ~safeGetOk(m, img.Sha) THEN Panic(m)
    ELSE IF m.Images[img.Sha].ScanStatus # ScanStatusRunningScanClient THEN m
    ELSE addImageToScanQueue(
            [m EXCEPT !.Images[img.Sha].ScanStatus = ScanStatusError], img.Sha)

errorRunningScanClient(m, img) ==
    IF ~safeGetOk(m, img.Sha) THEN Panic(m)
    ELSE IF m.Images[img.Sha].ScanStatus # ScanStatusRunningScanClient THEN Panic(m)
    ELSE addImageToScanQueue(
            [m EXCEPT !.Images[img.Sha].ScanStatus = ScanStatusError], img.Sha)

\* faulty variant: a finished image is queued for a scan again
finishRunningScanClient_Requeue(m, img) ==
    IF ~safeGetOk(m, img.Sha) THEN Panic(m)
    ELSE IF m.Images[img.Sha].ScanStatus # ScanStatusRunningScanClient THEN Panic(m)
    ELSE [m EXCEPT !.Images[img.Sha].ScanStatus = ScanStatusInQueue,
                   !.ImageScanQueue = Append(@, image(m.Images[img.Sha]))]

finishRunningScanClient(m, img) ==
    IF ~safeGetOk(m, img.Sha) THEN Panic(m)
    ELSE IF m.Images[img.Sha].ScanStatus # ScanStatusRunningScanClient THEN Panic(m)
    ELSE [m EXCEPT !.Images[img.Sha].ScanStatus = ScanStatusRunningHubScan]

finishRunningHubScan(m, img, results) ==
    IF ~safeGetOk(m, img.Sha) THEN Panic(m)
    ELSE IF m.Images[img.Sha].ScanStatus # ScanStatusRunningHubScan THEN Panic(m)
    ELSE [m EXCEPT !.Images[img.Sha].ScanStatus = ScanStatusComplete,
                   !.Images[img.Sha].ScanResults = results]

NotFoundResult(podName) ==
    [kind |-> "scanResults", pod |-> podName,
     policyViolationCount |-> 0, vulnerabilityCount |-> 0,
     overallStatus |-> "", err |-> "could not find pod"]

RECURSIVE scanResultsLoop(_, _, _, _)
scanResultsLoop(m, containers, i, acc) ==
    IF i > Len(containers) THEN acc
    ELSE LET sha == containers[i].Image.Sha
         IN  IF sha \notin DOMAIN m.Images
               THEN scanResultsLoop(m, containers, i + 1, acc)
             ELSE IF m.Images[sha].ScanStatus # ScanStatusComplete
               THEN scanResultsLoop(m, containers, i + 1, acc)
             ELSE IF m.Images[sha].ScanResults = Nil
               THEN scanResultsLoop(m, containers, i + 1, acc)
             ELSE LET r == m.Images[sha].ScanResults
                  IN  scanResultsLoop(m, containers, i + 1,
                        [acc EXCEPT
                           !.policyViolationCount = @ + r.PolicyViolationCount,
                           !.vulnerabilityCount = @ + r.VulnerabilityCount,
                           !.overallStatus = IF r.OverallStatus # "NOT_IN_VIOLATION"
                                             THEN r.OverallStatus ELSE @])

ZeroResult(podName) ==
    [kind |-> "scanResults", pod |-> podName,
     policyViolationCount |-> 0, vulnerabilityCount |-> 0,
     overallStatus |-> "", err |-> NoError]

\* faulty variant: sums once per distinct image instead of once per container
scanResults_PerImage(m, podName) ==
    IF podName \notin DOMAIN m.Pods THEN NotFoundResult(podName)
    ELSE LET cs == m.Pods[podName].Containers
             firsts == SelectSeq([k \in 1..Len(cs) |-> [c |-> cs[k], k |-> k]],
                         LAMBDA e : \A j \in 1..(e.k - 1) : cs[j].Image.Sha # e.c.Image.Sha)
         IN  scanResultsLoop(m, [k \in 1..Len(firsts) |-> firsts[k].c], 1, ZeroResult(podName))

\* faulty variant: keeps the most severe label instead of the last one
scanResults_Ranked(m, podName) ==
    IF podName \notin DOMAIN m.Pods THEN NotFoundResult(podName)
    ELSE LET cs == m.Pods[podName].Containers
             r == scanResultsLoop(m, cs, 1, ZeroResult(podName))
             worst == \E k \in 1..Len(cs) :
                        /\ cs[k].Image.Sha \in DOMAIN m.Images
                        /\ m.Images[cs[k].Image.Sha].ScanStatus = ScanStatusComplete
                        /\ m.Images[cs[k].Image.Sha].ScanResults # Nil
                        /\ m.Images[cs[k].Image.Sha].ScanResults.OverallStatus = "IN_VIOLATION"
         IN  IF worst THEN [r EXCEPT !.overallStatus = "IN_VIOLATION"] ELSE r

\* faulty variant: answers an unknown pod with an empty aggregate instead of an error
scanResults_NoError(m, podName) ==
    IF podName \notin DOMAIN m.Pods THEN ZeroResult(podName)
    ELSE scanResultsLoop(m, m.Pods[podName].Containers, 1, ZeroResult(podName))

scanResults(m, podName) ==
    IF podName \notin DOMAIN m.Pods THEN NotFoundResult(podName)
    ELSE scanResultsLoop(m, m.Pods[podName].Containers, 1, ZeroResult(podName))

----------------------------------------------------------------------------
(* Actions: one call of one operation on the current model *)

\* regOrder after the images of the containers were registered in list order
RECURSIVE FirstRegistrations(_, _)
FirstRegistrations(order, containers) ==
    IF containers = << >> THEN order
    ELSE FirstRegistrations(
            IF Head(containers).Image.Sha \in { order[k] : k \in 1..Len(order) }
            THEN order ELSE Append(order, Head(containers).Image.Sha),
            Tail(containers))

\* the model after the call, and the call's outcome
CommitModel(m, op, arg) ==
    /\ Pods' = m.Pods
    /\ Images' = m.Images
    /\ ImageScanQueue' = m.ImageScanQueue
    /\ ImageHubCheckQueue' = m.ImageHubCheckQueue
    /\ ConcurrentScanLimit' = m.ConcurrentScanLimit
    /\ last' = [op |-> op, arg |-> arg, ret |-> m.ret]
    /\ fatal' = m.panicked

Commit(m, op, arg) ==
    /\ CommitModel(m, op, arg)
    /\ UNCHANGED extVars

CallAddPod(newPod) ==
    /\ ~fatal
    /\ LET m == AddPod(Cur, newPod)
       IN  /\ Commit(m, "AddPod",
                     [QualifiedName |-> newPod.QualifiedName,
                      Containers |-> newPod.Containers,
                      replaced |-> IF newPod.QualifiedName \in DOMAIN Pods
                                   THEN Pods[newPod.QualifiedName] ELSE Nil])
           /\ regOrder' = FirstRegistrations(regOrder, newPod.Containers)
    /\ UNCHANGED <<hubReturned, scanHandedOut, errCount>>

RECURSIVE AllContainers(_)
AllContainers(pods) ==
    IF pods = << >> THEN << >>
    ELSE Head(pods).Containers \o AllContainers(Tail(pods))

CallSetAllPods(pods) ==
    /\ ~fatal
    /\ LET m == SetAllPods(Cur, pods)
       IN  /\ Commit(m, "SetAllPods", [pods |-> pods, before |-> DOMAIN Pods])
           /\ regOrder' = FirstRegistrations(regOrder, AllContainers(pods))
    /\ UNCHANGED <<hubReturned, scanHandedOut, errCount>>

CallDeletePod(podName) ==
    /\ ~fatal
    /\ Commit(DeletePod(Cur, podName), "DeletePod",
              [QualifiedName |-> podName, present |-> podName \in DOMAIN Pods])
    /\ UNCHANGED histVars

CallAddImage(img) ==
    /\ ~fatal
    /\ LET m == AddImage(Cur, img)
       IN  /\ Commit(m, "AddImage", img)
           /\ regOrder' = FirstRegistrations(regOrder, << [Image |-> img] >>)
    /\ UNCHANGED <<hubReturned, scanHandedOut, errCount>>

CallAddImageToHubCheckQueue(sha) ==
    /\ ~fatal
    /\ Commit(addImageToHubCheckQueue(Cur, sha), "addImageToHubCheckQueue", [Sha |-> sha])
    /\ UNCHANGED histVars

CallGetNextImageFromHubCheckQueue ==
    /\ ~fatal
    /\ LET m == getNextImageFromHubCheckQueue(Cur)
       IN  /\ Commit(m, "getNextImageFromHubCheckQueue", Nil)
           /\ hubReturned' = IF m.panicked \/ m.ret = Nil THEN hubReturned
                             ELSE Append(hubReturned, m.ret.Sha)
    /\ UNCHANGED <<regOrder, scanHandedOut, errCount>>

CallAddImageToScanQueue(sha) ==
    /\ ~fatal
    /\ Commit(addImageToScanQueue(Cur, sha), "addImageToScanQueue", [Sha |-> sha])
    /\ UNCHANGED histVars

CallGetNextImageFromScanQueue ==
    /\ ~fatal
    /\ LET m == getNextImageFromScanQueue(Cur)
       IN  /\ Commit(m, "getNextImageFromScanQueue", Nil)
           /\ scanHandedOut' = IF m.panicked \/ m.ret = Nil THEN scanHandedOut
                               ELSE scanHandedOut \cup {m.ret.Sha}
    /\ UNCHANGED <<regOrder, hubReturned, errCount>>

CallErrorRunningScanClient(img) ==
    /\ ~fatal
    /\ LET m == errorRunningScanClient(Cur, img)
       IN  /\ Commit(m, "errorRunningScanClient", img)
           /\ scanHandedOut' = IF m.panicked THEN scanHandedOut
                               ELSE scanHandedOut \ {img.Sha}
           /\ errCount' = IF m.panicked THEN errCount
                          ELSE [errCount EXCEPT ![img.Sha] = IF @ < MaxErrors THEN @ + 1 ELSE @]
    /\ UNCHANGED <<regOrder, hubReturned>>

CallFinishRunningScanClient(img) ==
    /\ ~fatal
    /\ LET m == finishRunningScanClient(Cur, img)
       IN  /\ Commit(m, "finishRunningScanClient", img)
           /\ errCount' = IF m.panicked THEN errCount
                          ELSE [errCount EXCEPT ![img.Sha] = 0]
    /\ UNCHANGED <<regOrder, hubReturned, scanHandedOut>>

CallFinishRunningHubScan(img, results) ==
    /\ ~fatal
    /\ Commit(finishRunningHubScan(Cur, img, results), "finishRunningHubScan",
              [image |-> img, results |-> results])
    /\ UNCHANGED histVars

CallScanResults(podName) ==
    /\ ~fatal
    /\ Commit([Cur EXCEPT !.ret = scanResults(Cur, podName)], "scanResults",
              [QualifiedName |-> podName])
    /\ UNCHANGED histVars

----------------------------------------------------------------------------
(* Specification *)

InitOver(limits) ==
    /\ \E n \in limits :
         LET m == NewModel(n)
         IN  /\ Pods = m.Pods
             /\ Images = m.Images
             /\ ImageScanQueue = m.ImageScanQueue
             /\ ImageHubCheckQueue = m.ImageHubCheckQueue
             /\ ConcurrentScanLimit = m.ConcurrentScanLimit
             /\ last = [op |-> "NewModel", arg |-> [limit |-> n], ret |-> m.ret]
             /\ fatal = m.panicked
    /\ regOrder = << >>
    /\ hubReturned = << >>
    /\ scanHandedOut = {}
    /\ errCount = [s \in AllShas |-> 0]

NextOver(images, pods, results) ==
    \/ \E p \in pods : CallAddPod(p)
    \/ \E n \in PodNames : CallDeletePod(n)
    \/ \E i \in images : CallAddImage(i)
    \/ \E i \in images : CallAddImageToHubCheckQueue(i.Sha)
    \/ CallGetNextImageFromHubCheckQueue
    \/ \E i \in images : CallAddImageToScanQueue(i.Sha)
    \/ CallGetNextImageFromScanQueue
    \/ \E i \in images : CallErrorRunningScanClient(i)
    \/ \E i \in images : CallFinishRunningScanClient(i)
    \/ \E i \in images : \E r \in results : CallFinishRunningHubScan(i, r)
    \/ \E n \in PodNames : CallScanResults(n)

\* nothing but the Model with the hub-check stage is running
ExtIdle ==
    /\ simple = Nil
    /\ callers = Nil
    /\ metrics = Nil
    /\ version = Nil
    /\ perceiver = Nil
    /\ hubFetcher = Nil

Init == InitOver(Limits) /\ ExtIdle

Next == NextOver(Image, PodValues, ScanResultsValues \cup {Nil})

Spec == Init /\ [][Next]_vars

\* The same operations over three images under one name each and a single pod
\* snapshot, for the claims about the order of three registrations.
InitFifo == InitOver({1}) /\ ExtIdle

NextFifo == NextOver(FifoImage, FifoPodValues, {FifoScanResults})

SpecFifo == InitFifo /\ [][NextFifo]_vars

\* The same operations and the bulk replace of the pod set, over three pod names.
InitResync == InitOver({1}) /\ ExtIdle

NextResync ==
    \/ NextOver(ResyncImage, ResyncPodValues, {FifoScanResults})
    \/ CallDeletePod("ns/c")
    \/ CallScanResults("ns/c")
    \/ \E ps \in ResyncPayloads : CallSetAllPods(ps)

SpecResync == InitResync /\ [][NextResync]_vars

----------------------------------------------------------------------------
(* The variant of Model without the hub-check stage: its records are keyed by  *)
(* the image, AddImage queues straight for the scan, and its dequeue does not  *)
(* look at the limit.  Its operations are operators on a record w.             *)

ScanStatusNotScanned == "NotScanned"

NewImageScanResults == [ScanStatus |-> ScanStatusNotScanned, ScanResults |-> Nil]

Simple_NewModel(concurrentScanLimit) ==
    [Pods |-> << >>, Images |-> << >>, ImageScanQueue |-> << >>,
     ConcurrentScanLimit |-> concurrentScanLimit,
     panicked |-> FALSE, ret |-> Void]

Simple_DeletePod(w, podName) ==
    [w EXCEPT !.Pods = MapDelete(@, podName)]

Simple_addImageToQueue(w, img) ==
    IF img \notin DOMAIN w.Images THEN Panic(w)
    ELSE IF w.Images[img].ScanStatus \notin {ScanStatusNotScanned, ScanStatusError} THEN Panic(w)
    ELSE [w EXCEPT !.Images[img].ScanStatus = ScanStatusInQueue,
                   !.ImageScanQueue = Append(@, img)]

Simple_AddImage(w, img) ==
    IF img \notin DOMAIN w.Images
    THEN Simple_addImageToQueue(
            [w EXCEPT !.Images = MapPut(@, img, NewImageScanResults)], img)
    ELSE w

RECURSIVE Simple_AddPodContainers(_, _, _)
Simple_AddPodContainers(w, containers, i) ==
    IF i > Len(containers) \/ w.panicked THEN w
    ELSE Simple_AddPodContainers(Simple_AddImage(w, containers[i].Image), containers, i + 1)

Simple_AddPod(w, newPod) ==
    LET w1 == Simple_AddPodContainers(w, newPod.Containers, 1)
    IN  IF w1.panicked THEN w1
        ELSE [w1 EXCEPT !.Pods = MapPut(@, newPod.QualifiedName, newPod)]

Simple_getNextImageFromQueue(w) ==
    IF Len(w.ImageScanQueue) = 0 THEN [w EXCEPT !.ret = Nil]
    ELSE LET first == w.ImageScanQueue[1]
         IN  IF first \notin DOMAIN w.Images THEN Panic(w)
             ELSE IF w.Images[first].ScanStatus # ScanStatusInQueue THEN Panic(w)
             ELSE [w EXCEPT !.Images[first].ScanStatus = ScanStatusRunningScanClient,
                            !.ImageScanQueue = Tail(@),
                            !.ret = first]

Simple_errorRunningScanClient(w, img) ==
    IF img \notin DOMAIN w.Images THEN Panic(w)
    ELSE IF w.Images[img].ScanStatus # ScanStatusRunningScanClient THEN Panic(w)
    ELSE Simple_addImageToQueue(
            [w EXCEPT !.Images[img].ScanStatus = ScanStatusError], img)

Simple_finishRunningScanClient(w, img) ==
    IF img \notin DOMAIN w.Images THEN Panic(w)
    ELSE IF w.Images[img].ScanStatus # ScanStatusRunningScanClient THEN Panic(w)
    ELSE [w EXCEPT !.Images[img].ScanStatus = ScanStatusRunningHubScan]

Simple_finishRunningHubScan(w, img, results) ==
    IF img \notin DOMAIN w.Images THEN Panic(w)
    ELSE IF w.Images[img].ScanStatus # ScanStatusRunningHubScan THEN Panic(w)
    ELSE [w EXCEPT !.Images[img].ScanStatus = ScanStatusComplete,
                   !.Images[img].ScanResults = results]

RECURSIVE Simple_scanResultsLoop(_, _, _, _)
Simple_scanResultsLoop(w, containers, i, acc) ==
    IF i > Len(containers) THEN acc
    ELSE LET img == containers[i].Image
         IN  IF img \notin DOMAIN w.Images
               THEN Simple_scanResultsLoop(w, containers, i + 1, acc)
             ELSE IF w.Images[img].ScanStatus # ScanStatusComplete
               THEN Simple_scanResultsLoop(w, containers, i + 1, acc)
             ELSE IF w.Images[img].ScanResults = Nil
               THEN Simple_scanResultsLoop(w, containers, i + 1, acc)
             ELSE LET r == w.Images[img].ScanResults
                  IN  Simple_scanResultsLoop(w, containers, i + 1,
                        [acc EXCEPT
                           !.policyViolationCount = @ + r.PolicyViolationCount,
                           !.vulnerabilityCount = @ + r.VulnerabilityCount,
                           !.overallStatus = IF r.OverallStatus # "NOT_IN_VIOLATION"
                                             THEN r.OverallStatus ELSE @])

Simple_scanResults(w, podName) ==
    IF podName \notin DOMAIN w.Pods THEN NotFoundResult(podName)
    ELSE Simple_scanResultsLoop(w, w.Pods[podName].Containers, 1, ZeroResult(podName))

\* The hidden steps of the Model with the hub-check stage: every image waiting for
\* its hub check is taken from the hub-check queue and queued for its scan.
RECURSIVE HubCheckAll(_)
HubCheckAll(m) ==
    IF m.panicked \/ Len(m.ImageHubCheckQueue) = 0 THEN m
    ELSE LET m1 == getNextImageFromHubCheckQueue(m)
         IN  IF m1.panicked THEN m1
             ELSE HubCheckAll(addImageToScanQueue(m1, m1.ret.Sha))

\* One operation of the variant without the hub-check stage, and the same operation
\* of the Model with it followed by its hidden steps.
Both(m, w, op, arg) ==
    /\ CommitModel(m, op, arg)
    /\ simple' = w
    /\ UNCHANGED histVars
    /\ UNCHANGED <<callers, metrics, version, perceiver, hubFetcher>>

BothAddPod(newPod) ==
    /\ ~fatal /\ ~simple.panicked
    /\ Both([HubCheckAll(AddPod(Cur, newPod)) EXCEPT !.ret = Void],
            Simple_AddPod([simple EXCEPT !.ret = Void], newPod),
            "AddPod", newPod)

BothDeletePod(podName) ==
    /\ ~fatal /\ ~simple.panicked
    /\ Both(DeletePod(Cur, podName),
            Simple_DeletePod([simple EXCEPT !.ret = Void], podName),
            "DeletePod", [QualifiedName |-> podName])

BothAddImage(img) ==
    /\ ~fatal /\ ~simple.panicked
    /\ Both([HubCheckAll(AddImage(Cur, img)) EXCEPT !.ret = Void],
            Simple_AddImage([simple EXCEPT !.ret = Void], img),
            "AddImage", img)

BothGetNextImage ==
    /\ ~fatal /\ ~simple.panicked
    /\ Both(getNextImageFromScanQueue(Cur),
            Simple_getNextImageFromQueue([simple EXCEPT !.ret = Void]),
            "getNextImageFromScanQueue", Nil)

BothErrorRunningScanClient(img) ==
    /\ ~fatal /\ ~simple.panicked
    /\ Both(errorRunningScanClient(Cur, img),
            Simple_errorRunningScanClient([simple EXCEPT !.ret = Void], img),
            "errorRunningScanClient", img)

BothFinishRunningScanClient(img) ==
    /\ ~fatal /\ ~simple.panicked
    /\ Both(finishRunningScanClient(Cur, img),
            Simple_finishRunningScanClient([simple EXCEPT !.ret = Void], img),
            "finishRunningScanClient", img)

BothFinishRunningHubScan(img, results) ==
    /\ ~fatal /\ ~simple.panicked
    /\ Both(finishRunningHubScan(Cur, img, results),
            Simple_finishRunningHubScan([simple EXCEPT !.ret = Void], img, results),
            "finishRunningHubScan", [image |-> img, results |-> results])

BothScanResults(podName) ==
    /\ ~fatal /\ ~simple.panicked
    /\ Both([Cur EXCEPT !.ret = scanResults(Cur, podName)],
            [simple EXCEPT !.ret = Simple_scanResults(simple, podName)],
            "scanResults", [QualifiedName |-> podName])

\* Both variants start from NewModel with the same limit: one scan at a time, or
\* as many as there are images.
InitRefine ==
    /\ InitOver({1, 3})
    /\ simple = Simple_NewModel(ConcurrentScanLimit)
    /\ callers = Nil
    /\ metrics = Nil
    /\ version = Nil
    /\ perceiver = Nil
    /\ hubFetcher = Nil

NextRefine ==
    \/ \E p \in FifoPodValues : BothAddPod(p)
    \/ BothDeletePod("ns/a")
    \/ \E i \in FifoImage : BothAddImage(i)
    \/ BothGetNextImage
    \/ \E i \in FifoImage : BothErrorRunningScanClient(i)
    \/ \E i \in FifoImage : BothFinishRunningScanClient(i)
    \/ \E i \in FifoImage : BothFinishRunningHubScan(i, FifoScanResults)
    \/ \E n \in PodNames : BothScanResults(n)

SpecRefine == InitRefine /\ [][NextRefine]_vars

----------------------------------------------------------------------------
(* getNextImageFromScanQueue called by two callers, statement by statement.    *)
(* Model has no lock: when the callers are not serialized their statements     *)
(* interleave with each other and with the other operations.                   *)

Callers == {1, 2}

RaceImage == { [Sha |-> s, Name |-> "img"] : s \in Shas }

\* the statements of getNextImageFromScanQueue

\* faulty variant: the gate closes one scan too late
limitReached_OffByOne(m) == inProgressScanCount(m) > m.ConcurrentScanLimit

limitReached(m) == inProgressScanCount(m) >= m.ConcurrentScanLimit

queueEmpty(m) == Len(m.ImageScanQueue) = 0

headNotInQueue(m, first) ==
    ~safeGetOk(m, first.Sha) \/ m.Images[first.Sha].ScanStatus # ScanStatusInQueue

markRunning(m, first) ==
    [m EXCEPT !.Images[first.Sha].ScanStatus = ScanStatusRunningScanClient]

\* ImageScanQueue[1:], which panics on an empty slice
dropHead(m) ==
    IF Len(m.ImageScanQueue) = 0 THEN Panic(m)
    ELSE [m EXCEPT !.ImageScanQueue = Tail(@)]

\* what the statements of the callers leave alone, besides the model
\* caller c may take its next statement: always when the calls are not serialized,
\* and only while no other caller is inside its call when they are
MayStep(c) ==
    /\ ~fatal
    /\ callers.serialized => \A d \in Callers \ {c} : callers.pc[d] = "idle"

Return(c, value) ==
    callers' = [callers EXCEPT !.pc[c] = "idle", !.first[c] = Nil, !.ret[c] = value]

\* if model.inProgressScanCount() >= model.ConcurrentScanLimit { return nil }
CheckLimit(c) ==
    /\ MayStep(c)
    /\ callers.pc[c] = "idle"
    /\ IF limitReached(Cur)
       THEN Return(c, Nil)
       ELSE callers' = [callers EXCEPT !.pc[c] = "checked", !.ret[c] = Void]
    /\ UNCHANGED <<modelVars, fatal, last, histVars, simple, metrics, version, perceiver, hubFetcher>>

\* if len(model.ImageScanQueue) == 0 { return nil }; first := model.ImageScanQueue[0]
ReadHead(c) ==
    /\ MayStep(c)
    /\ callers.pc[c] = "checked"
    /\ IF queueEmpty(Cur)
       THEN Return(c, Nil)
       ELSE callers' = [callers EXCEPT !.pc[c] = "read", !.first[c] = ImageScanQueue[1]]
    /\ UNCHANGED <<modelVars, fatal, last, histVars, simple, metrics, version, perceiver, hubFetcher>>

\* imageInfo := model.safeGet(first.Sha); panic unless its status is InQueue
CheckStatus(c) ==
    /\ MayStep(c)
    /\ callers.pc[c] = "read"
    /\ fatal' = headNotInQueue(Cur, callers.first[c])
    /\ callers' = [callers EXCEPT !.pc[c] = "verified"]
    /\ UNCHANGED <<modelVars, last, histVars, simple, metrics, version, perceiver, hubFetcher>>

\* imageInfo.ScanStatus = ScanStatusRunningScanClient
MarkRunning(c) ==
    /\ MayStep(c)
    /\ callers.pc[c] = "verified"
    /\ Images' = markRunning(Cur, callers.first[c]).Images
    /\ callers' = [callers EXCEPT !.pc[c] = "marked"]
    /\ UNCHANGED <<Pods, ImageScanQueue, ImageHubCheckQueue, ConcurrentScanLimit,
                   fatal, <<last, histVars, simple, metrics, version, perceiver, hubFetcher>>>>

\* model.ImageScanQueue = model.ImageScanQueue[1:]; return &first
DropHead(c) ==
    /\ MayStep(c)
    /\ callers.pc[c] = "marked"
    /\ LET m == dropHead(Cur)
       IN  /\ ImageScanQueue' = m.ImageScanQueue
           /\ fatal' = m.panicked
           /\ IF m.panicked
              THEN callers' = [callers EXCEPT !.pc[c] = "panicked"]
              ELSE Return(c, callers.first[c])
    /\ UNCHANGED <<Pods, Images, ImageHubCheckQueue, ConcurrentScanLimit, last, histVars, simple, metrics, version, perceiver, hubFetcher>>

\* the other operations run between the statements of the callers, or between
\* their calls when the calls are serialized
Quiet ==
    callers.serialized => \A c \in Callers : callers.pc[c] = "idle"

RaceCommit(m, op, arg) ==
    /\ ~fatal
    /\ Quiet
    /\ CommitModel(m, op, arg)
    /\ UNCHANGED <<histVars, extVars>>

RaceAddImage(img) ==
    /\ img.Sha \notin DOMAIN Images
    /\ RaceCommit(AddImage(Cur, img), "AddImage", img)

RaceGetNextImageFromHubCheckQueue ==
    /\ Len(ImageHubCheckQueue) > 0
    /\ RaceCommit(getNextImageFromHubCheckQueue(Cur), "getNextImageFromHubCheckQueue", Nil)

RaceAddImageToScanQueue(sha) ==
    /\ sha \in DOMAIN Images
    /\ Images[sha].ScanStatus = ScanStatusCheckingHub
    /\ RaceCommit(addImageToScanQueue(Cur, sha), "addImageToScanQueue", [Sha |-> sha])

InitRace ==
    /\ InitOver({1})
    /\ simple = Nil
    /\ metrics = Nil
    /\ version = Nil
    /\ perceiver = Nil
    /\ hubFetcher = Nil
    /\ \E b \in BOOLEAN :
         callers = [serialized |-> b,
                    pc |-> [c \in Callers |-> "idle"],
                    first |-> [c \in Callers |-> Nil],
                    ret |-> [c \in Callers |-> Void]]

NextRace ==
    \/ \E i \in RaceImage : RaceAddImage(i)
    \/ RaceGetNextImageFromHubCheckQueue
    \/ \E i \in RaceImage : RaceAddImageToScanQueue(i.Sha)
    \/ \E c \in Callers : CheckLimit(c)
    \/ \E c \in Callers : ReadHead(c)
    \/ \E c \in Callers : CheckStatus(c)
    \/ \E c \in Callers : MarkRunning(c)
    \/ \E c \in Callers : DropHead(c)

SpecRace == InitRace /\ [][NextRace]_vars

----------------------------------------------------------------------------
(* The metrics object: updateModel stores a model, and the goroutine started   *)
(* by setup generates the status metrics from the stored model.                *)

MetricsPodValues ==
    { [QualifiedName |-> "ns/a",
       Containers |-> << Cont(1, "img"), Cont(2, "img"), Cont(2, "img") >>] }

\* the metrics object after newMetrics: latestModel is the zero value of Model,
\* setup has registered the gauges and started its goroutine, which has not run yet
newMetrics ==
    [latestModel |-> [Pods |-> << >>, Images |-> << >>],
     statusGauge |-> << >>,
     statusHistogram |-> << >>,
     goroutine |-> "generate"]

updateModel(mt, model) ==
    [mt EXCEPT !.latestModel = [Pods |-> model.Pods, Images |-> model.Images]]

\* faulty variant: a status is counted once, however many images have it
RECURSIVE statusCounts_Flag(_, _, _)
statusCounts_Flag(images, shas, counts) ==
    IF shas = {} THEN counts
    ELSE LET sha == CHOOSE x \in shas : TRUE
             key == images[sha].ScanStatus
         IN  statusCounts_Flag(images, shas \ {sha}, MapPut(counts, key, 1))

\* for _, imageResults := range model.Images { statusCounts[status]++ }
RECURSIVE statusCounts(_, _, _)
statusCounts(images, shas, counts) ==
    IF shas = {} THEN counts
    ELSE LET sha == CHOOSE x \in shas : TRUE
             key == images[sha].ScanStatus
         IN  statusCounts(images, shas \ {sha},
                MapPut(counts, key, (IF key \in DOMAIN counts THEN counts[key] ELSE 0) + 1))

\* the gauge g with the values of h set
SetAll(g, h) ==
    [k \in (DOMAIN g) \cup (DOMAIN h) |-> IF k \in DOMAIN h THEN h[k] ELSE g[k]]

generateStatusMetrics(mt) ==
    LET model == mt.latestModel
        counts == statusCounts(model.Images, DOMAIN model.Images, << >>)
        byStatus == [k \in { [name |-> "image_status", of |-> st] : st \in DOMAIN counts }
                       |-> counts[k.of]]
        totals == [k \in { [name |-> "number_of_pods", of |-> ""],
                           [name |-> "number_of_images", of |-> ""] }
                     |-> IF k.name = "number_of_pods"
                         THEN Cardinality(DOMAIN model.Pods)
                         ELSE Cardinality(DOMAIN model.Images)]
        lens == { Len(model.Pods[q].Containers) : q \in DOMAIN model.Pods }
        containerCounts ==
            [k \in { [name |-> "containers_per_pod", count |-> n] : n \in lens }
               |-> Cardinality({ q \in DOMAIN model.Pods :
                                   Len(model.Pods[q].Containers) = k.count })]
        refs == UNION { { model.Pods[q].Containers[j].Image :
                            j \in 1..Len(model.Pods[q].Containers) } :
                        q \in DOMAIN model.Pods }
        imageCounts ==
            [i \in refs |->
               Cardinality({ << q, j >> \in (DOMAIN model.Pods) \X (1..3) :
                               /\ j <= Len(model.Pods[q].Containers)
                               /\ model.Pods[q].Containers[j].Image = i })]
        imageCountHistogram ==
            [k \in { [name |-> "references_per_image", count |-> imageCounts[i]] : i \in refs }
               |-> Cardinality({ i \in refs : imageCounts[i] = k.count })]
    IN  [mt EXCEPT !.statusGauge = SetAll(SetAll(@, byStatus), totals),
                   !.statusHistogram = SetAll(SetAll(@, containerCounts), imageCountHistogram)]

UpdateModel ==
    /\ ~fatal
    /\ metrics' = updateModel(metrics, Cur)
    /\ UNCHANGED <<modelVars, last, fatal, histVars, simple, callers, version, perceiver, hubFetcher>>

\* go func() { m.generateStatusMetrics(); time.Sleep(15 * time.Second) }()
GenerateStatusMetrics ==
    /\ metrics.goroutine = "generate"
    /\ metrics' = [generateStatusMetrics(metrics) EXCEPT !.goroutine = "sleep"]
    /\ UNCHANGED <<modelVars, last, fatal, histVars, simple, callers, version, perceiver, hubFetcher>>

Sleep ==
    /\ metrics.goroutine = "sleep"
    /\ metrics' = [metrics EXCEPT !.goroutine = "exited"]
    /\ UNCHANGED <<modelVars, last, fatal, histVars, simple, callers, version, perceiver, hubFetcher>>

CallInProgressScanJobs ==
    /\ ~fatal
    /\ Commit([Cur EXCEPT !.ret = [kind |-> "shas", shas |-> inProgressScanJobs(Cur)]],
              "inProgressScanJobs", Nil)
    /\ UNCHANGED histVars

CallInProgressScanCount ==
    /\ ~fatal
    /\ Commit([Cur EXCEPT !.ret = [kind |-> "count", count |-> inProgressScanCount(Cur)]],
              "inProgressScanCount", Nil)
    /\ UNCHANGED histVars

CallInProgressHubScans ==
    /\ ~fatal
    /\ Commit([Cur EXCEPT !.ret = [kind |-> "images", images |-> inProgressHubScans(Cur)]],
              "inProgressHubScans", Nil)
    /\ UNCHANGED histVars

InitMetrics ==
    /\ InitOver({1})
    /\ metrics = newMetrics
    /\ simple = Nil
    /\ callers = Nil
    /\ version = Nil
    /\ perceiver = Nil
    /\ hubFetcher = Nil

NextMetrics ==
    \/ \E p \in MetricsPodValues : CallAddPod(p)
    \/ CallDeletePod("ns/a")
    \/ CallGetNextImageFromHubCheckQueue
    \/ \E i \in RaceImage : CallAddImageToScanQueue(i.Sha)
    \/ CallGetNextImageFromScanQueue
    \/ \E i \in RaceImage : CallFinishRunningScanClient(i)
    \/ CallScanResults("ns/a")
    \/ CallInProgressScanJobs
    \/ CallInProgressScanCount
    \/ CallInProgressHubScans
    \/ UpdateModel
    \/ GenerateStatusMetrics
    \/ Sleep

SpecMetrics == InitMetrics /\ [][NextMetrics]_vars

\* the goroutine of setup is scheduled
SpecMetricsFair ==
    SpecMetrics /\ WF_vars(GenerateStatusMetrics) /\ WF_vars(Sleep)

----------------------------------------------------------------------------
(* Callers that keep to the protocol: an image is queued for the scan only     *)
(* after the hub-check dequeue returned it, and a scan is reported only for an *)
(* image that the scan dequeue returned.  callers holds what they hold.        *)

ProtoAddPod(newPod) ==
    /\ ~fatal
    /\ CommitModel(AddPod(Cur, newPod), "AddPod", newPod)
    /\ UNCHANGED <<callers, errCount, regOrder, hubReturned, scanHandedOut, simple, metrics, version, perceiver, hubFetcher>>

ProtoDeletePod(podName) ==
    /\ ~fatal
    /\ CommitModel(DeletePod(Cur, podName), "DeletePod", [QualifiedName |-> podName])
    /\ UNCHANGED <<callers, errCount, regOrder, hubReturned, scanHandedOut, simple, metrics, version, perceiver, hubFetcher>>

ProtoAddImage(img) ==
    /\ ~fatal
    /\ CommitModel(AddImage(Cur, img), "AddImage", img)
    /\ UNCHANGED <<callers, errCount, regOrder, hubReturned, scanHandedOut, simple, metrics, version, perceiver, hubFetcher>>

ProtoGetNextImageFromHubCheckQueue ==
    /\ ~fatal
    /\ LET m == getNextImageFromHubCheckQueue(Cur)
       IN  /\ CommitModel(m, "getNextImageFromHubCheckQueue", Nil)
           /\ callers' = IF m.panicked \/ m.ret = Nil THEN callers
                         ELSE [callers EXCEPT !.hub = @ \cup {m.ret}]
    /\ UNCHANGED <<errCount, regOrder, hubReturned, scanHandedOut, simple, metrics, version, perceiver, hubFetcher>>

ProtoAddImageToScanQueue(img) ==
    /\ ~fatal
    /\ img \in callers.hub
    /\ CommitModel(addImageToScanQueue(Cur, img.Sha), "addImageToScanQueue",
                   [Sha |-> img.Sha])
    /\ callers' = [callers EXCEPT !.hub = @ \ {img}]
    /\ UNCHANGED <<errCount, regOrder, hubReturned, scanHandedOut, simple, metrics, version, perceiver, hubFetcher>>

ProtoGetNextImageFromScanQueue ==
    /\ ~fatal
    /\ LET m == getNextImageFromScanQueue(Cur)
       IN  /\ CommitModel(m, "getNextImageFromScanQueue", Nil)
           /\ callers' = IF m.panicked \/ m.ret = Nil THEN callers
                         ELSE [callers EXCEPT !.scan = @ \cup {m.ret}]
    /\ UNCHANGED <<errCount, regOrder, hubReturned, scanHandedOut, simple, metrics, version, perceiver, hubFetcher>>

ProtoErrorRunningScanClient(img) ==
    /\ ~fatal
    /\ img \in callers.scan
    /\ CommitModel(errorRunningScanClient(Cur, img), "errorRunningScanClient", img)
    /\ callers' = [callers EXCEPT !.scan = @ \ {img}]
    /\ errCount' = [errCount EXCEPT ![img.Sha] = IF @ < MaxErrors THEN @ + 1 ELSE @]
    /\ UNCHANGED <<regOrder, hubReturned, scanHandedOut, simple, metrics, version, perceiver, hubFetcher>>

ProtoFinishRunningScanClient(img) ==
    /\ ~fatal
    /\ img \in callers.scan
    /\ CommitModel(finishRunningScanClient(Cur, img), "finishRunningScanClient", img)
    /\ callers' = [callers EXCEPT !.scan = @ \ {img}, !.hubScan = @ \cup {img}]
    /\ errCount' = [errCount EXCEPT ![img.Sha] = 0]
    /\ UNCHANGED <<regOrder, hubReturned, scanHandedOut, simple, metrics, version, perceiver, hubFetcher>>

ProtoFinishRunningHubScan(img, results) ==
    /\ ~fatal
    /\ img \in callers.hubScan
    /\ CommitModel(finishRunningHubScan(Cur, img, results), "finishRunningHubScan",
                   [image |-> img, results |-> results])
    /\ callers' = [callers EXCEPT !.hubScan = @ \ {img}]
    /\ UNCHANGED <<errCount, regOrder, hubReturned, scanHandedOut, simple, metrics, version, perceiver, hubFetcher>>

InitProtocol ==
    /\ InitOver(Limits)
    /\ callers = [hub |-> {}, scan |-> {}, hubScan |-> {}]
    /\ simple = Nil
    /\ metrics = Nil
    /\ version = Nil
    /\ perceiver = Nil
    /\ hubFetcher = Nil

NextProtocol ==
    \/ \E p \in FifoPodValues : ProtoAddPod(p)
    \/ ProtoDeletePod("ns/a")
    \/ \E i \in FifoImage : ProtoAddImage(i)
    \/ ProtoGetNextImageFromHubCheckQueue
    \/ \E i \in FifoImage : ProtoAddImageToScanQueue(i)
    \/ ProtoGetNextImageFromScanQueue
    \/ \E i \in FifoImage : ProtoErrorRunningScanClient(i)
    \/ \E i \in FifoImage : ProtoFinishRunningScanClient(i)

SpecProtocol == InitProtocol /\ [][NextProtocol]_vars

\* the same callers where the hub scan of a scanned image completes as well
NextProtocolHub ==
    \/ NextProtocol
    \/ \E i \in FifoImage : ProtoFinishRunningHubScan(i, FifoScanResults)

\* the scan dequeue is polled again and again, and every image handed out is
\* reported and its hub scan completed
SpecProtocolFair ==
    /\ InitProtocol
    /\ [][NextProtocolHub]_vars
    /\ WF_vars(ProtoGetNextImageFromScanQueue)
    /\ \A i \in FifoImage :
         /\ WF_vars(ProtoErrorRunningScanClient(i) \/ ProtoFinishRunningScanClient(i))
         /\ WF_vars(ProtoFinishRunningHubScan(i, FifoScanResults))

----------------------------------------------------------------------------
(* Version.IsImageScanDone of the hub package, applied to a version drawn from *)
(* bounded lists of code locations and scan summaries.                         *)

MaxCodeLocations == 2

\* scan summaries of a version, over all its code locations
MaxSummaries == 2

ScanSummaryStatuses ==
    {"ERROR", "ERROR_BUILDING_BOM", "ERROR_MATCHING", "ERROR_SAVING_SCAN_DATA",
     "ERROR_SCANNING", "CANCELLED", "COMPLETE", "IN_PROGRESS"}

ScanSummary == [Status : ScanSummaryStatuses]

\* the lists of n code locations with at most budget scan summaries in all
RECURSIVE CodeLocations(_, _)
CodeLocations(n, budget) ==
    IF n = 0 THEN { << >> }
    ELSE UNION { { << [ScanSummaries |-> ss] >> \o rest :
                     ss \in [1..k -> ScanSummary], rest \in CodeLocations(n - 1, budget - k) } :
                 k \in 0..budget }

Version ==
    UNION { { [CodeLocations |-> cl] : cl \in CodeLocations(n, MaxSummaries) } :
            n \in 0..MaxCodeLocations }

\* the switch over scanSummary.Status: TRUE for continue, FALSE for return false
RECURSIVE scanSummariesLoop(_)
scanSummariesLoop(scanSummaries) ==
    IF scanSummaries = << >> THEN TRUE
    ELSE CASE Head(scanSummaries).Status = "ERROR" -> scanSummariesLoop(Tail(scanSummaries))
           [] Head(scanSummaries).Status = "ERROR_BUILDING_BOM" -> scanSummariesLoop(Tail(scanSummaries))
           [] Head(scanSummaries).Status = "ERROR_MATCHING" -> scanSummariesLoop(Tail(scanSummaries))
           [] Head(scanSummaries).Status = "ERROR_SAVING_SCAN_DATA" -> scanSummariesLoop(Tail(scanSummaries))
           [] Head(scanSummaries).Status = "ERROR_SCANNING" -> scanSummariesLoop(Tail(scanSummaries))
           [] Head(scanSummaries).Status = "CANCELLED" -> scanSummariesLoop(Tail(scanSummaries))
           [] Head(scanSummaries).Status = "COMPLETE" -> scanSummariesLoop(Tail(scanSummaries))
           [] OTHER -> FALSE

\* faulty variant: a code location without scan summaries is passed over
RECURSIVE codeLocationsLoop_EmptyOk(_)
codeLocationsLoop_EmptyOk(codeLocations) ==
    IF codeLocations = << >> THEN TRUE
    ELSE IF ~scanSummariesLoop(Head(codeLocations).ScanSummaries) THEN FALSE
    ELSE codeLocationsLoop_EmptyOk(Tail(codeLocations))

RECURSIVE codeLocationsLoop(_)
codeLocationsLoop(codeLocations) ==
    IF codeLocations = << >> THEN TRUE
    ELSE IF Len(Head(codeLocations).ScanSummaries) = 0 THEN FALSE
    ELSE IF ~scanSummariesLoop(Head(codeLocations).ScanSummaries) THEN FALSE
    ELSE codeLocationsLoop(Tail(codeLocations))

IsImageScanDone(v) ==
    IF Len(v.CodeLocations) = 0 THEN FALSE
    ELSE codeLocationsLoop(v.CodeLocations)

CallIsImageScanDone ==
    /\ ~version.called
    /\ version' = [version EXCEPT !.called = TRUE, !.ret = IsImageScanDone(version.v)]
    /\ UNCHANGED <<modelVars, last, fatal, histVars, simple, callers, metrics, perceiver, hubFetcher>>

InitVersion ==
    /\ InitOver({1})
    /\ \E v \in Version : version = [v |-> v, called |-> FALSE, ret |-> FALSE]
    /\ simple = Nil
    /\ callers = Nil
    /\ metrics = Nil
    /\ perceiver = Nil
    /\ hubFetcher = Nil

NextVersion == CallIsImageScanDone

SpecVersion == InitVersion /\ [][NextVersion]_vars

----------------------------------------------------------------------------
(* The perceiver: its three loops exchange requests with the core.  An action  *)
(* is one iteration of a loop; the outcome of the exchange is its input.       *)

MaxIterations == 2

\* http.Post / Do / Get returned an error, or a response with this status
Exchanges == {"transportError", "status200", "status500"}

PodEvents == {"PodAdd", "PodUpdate", "PodDelete"}

perceiverStarted ==
    [crashed |-> FALSE,
     events |-> 0,
     polls |-> 0,
     resyncs |-> 0,
     annotated |-> FALSE,
     exchange |-> [loop |-> "none", outcome |-> "none"],
     log |-> "started"]

\* log.Errorf(..., err.Error()): with err == nil the call of Error panics, and
\* the panic of a goroutine ends the process
logErrorf(p, err) ==
    IF err = "nil" THEN [p EXCEPT !.crashed = TRUE, !.log = "panic"]
    ELSE [p EXCEPT !.log = "failed"]

\* if err == nil && resp.StatusCode == 200 { log.Infof } else { log.Errorf }
afterResponse(p, err, status) ==
    IF err = "nil" /\ status = "status200" THEN [p EXCEPT !.log = "succeeded"]
    ELSE logErrorf(p, err)

\* one case of the select of the event loop
forwardPodEvent(p, event, outcome) ==
    LET q == [p EXCEPT !.events = @ + 1,
                       !.exchange = [loop |-> event, outcome |-> outcome]]
    IN  IF outcome = "transportError" THEN logErrorf(q, "error")
        ELSE afterResponse(q, "nil", outcome)

\* one iteration of the scan results poller; parses tells whether json.Unmarshal
\* accepts the body
pollScanResults(p, outcome, parses) ==
    LET q == [p EXCEPT !.polls = @ + 1,
                       !.exchange = [loop |-> "scanResults", outcome |-> outcome]]
        err == IF parses THEN "nil" ELSE "error"
    IN  IF outcome = "transportError" THEN logErrorf(q, "error")
        ELSE IF err = "nil" /\ outcome = "status200"
             THEN [q EXCEPT !.log = "succeeded", !.annotated = TRUE]
        ELSE logErrorf(q, err)

\* one iteration of the loop that sends all pods; podsOk tells whether
\* GetAllPods returned the pods
sendAllPods(p, podsOk, outcome) ==
    LET q == [p EXCEPT !.resyncs = @ + 1]
        r == [q EXCEPT !.exchange = [loop |-> "allPods", outcome |-> outcome]]
    IN  IF ~podsOk THEN logErrorf(q, "error")
        ELSE IF outcome = "transportError" THEN logErrorf(r, "error")
        ELSE afterResponse(r, "nil", outcome)

ForwardPodEvent(event, outcome) ==
    /\ ~perceiver.crashed
    /\ perceiver.events < MaxIterations
    /\ perceiver' = forwardPodEvent(perceiver, event, outcome)
    /\ UNCHANGED <<modelVars, last, fatal, histVars, simple, callers, metrics, version, hubFetcher>>

PollScanResults(outcome, parses) ==
    /\ ~perceiver.crashed
    /\ perceiver.polls < MaxIterations
    /\ perceiver' = pollScanResults(perceiver, outcome, parses)
    /\ UNCHANGED <<modelVars, last, fatal, histVars, simple, callers, metrics, version, hubFetcher>>

SendAllPods(podsOk, outcome) ==
    /\ ~perceiver.crashed
    /\ perceiver.resyncs < MaxIterations
    /\ perceiver' = sendAllPods(perceiver, podsOk, outcome)
    /\ UNCHANGED <<modelVars, last, fatal, histVars, simple, callers, metrics, version, hubFetcher>>

InitPerceiver ==
    /\ InitOver({1})
    /\ perceiver = perceiverStarted
    /\ hubFetcher = Nil
    /\ simple = Nil
    /\ callers = Nil
    /\ metrics = Nil
    /\ version = Nil

NextPerceiver ==
    \/ \E e \in PodEvents : \E o \in Exchanges : ForwardPodEvent(e, o)
    \/ \E o \in Exchanges : \E parses \in BOOLEAN : PollScanResults(o, parses)
    \/ \E podsOk \in BOOLEAN : \E o \in Exchanges : SendAllPods(podsOk, o)

SpecPerceiver == InitPerceiver /\ [][NextPerceiver]_vars

----------------------------------------------------------------------------
(* The HubFetcher: NewHubFetcher creates a client and logs in; the outcomes of *)
(* hubclient.NewWithSession and of client.Login are inputs.                    *)

MaxLoginCalls == 3

\* faulty variant: the client is asked again although the fetcher is logged in
login_Relogin(hf, loginOk) ==
    LET err == IF loginOk THEN NoError ELSE "login failed"
    IN  [hf |-> [hf EXCEPT !.isLoggedIn = (err = NoError)], err |-> err, called |-> TRUE]

\* hf is the fetcher after the call, err the returned error, called whether
\* client.Login was called
login(hf, loginOk) ==
    IF hf.isLoggedIn THEN [hf |-> hf, err |-> NoError, called |-> FALSE]
    ELSE LET err == IF loginOk THEN NoError ELSE "login failed"
         IN  [hf |-> [hf EXCEPT !.isLoggedIn = (err = NoError)], err |-> err, called |-> TRUE]

\* ret is the returned pointer (Nil for nil), hf the local fetcher of the call
NewHubFetcher(username, password, baseURL, clientOk, loginOk) ==
    IF ~clientOk
    THEN [ret |-> Nil, hf |-> Nil, err |-> "no client", called |-> FALSE]
    ELSE LET hf == [username |-> username,
                    password |-> password,
                    baseURL |-> baseURL,
                    isLoggedIn |-> FALSE]
             o == login(hf, loginOk)
         IN  IF o.err # NoError
             THEN [ret |-> Nil, hf |-> o.hf, err |-> o.err, called |-> o.called]
             ELSE [ret |-> o.hf, hf |-> o.hf, err |-> NoError, called |-> o.called]

CallNewHubFetcher(username, password, baseURL, clientOk, loginOk) ==
    /\ hubFetcher.logins < MaxLoginCalls
    /\ LET o == NewHubFetcher(username, password, baseURL, clientOk, loginOk)
       IN  hubFetcher' = [fetcher |-> o.ret,
                          op |-> "NewHubFetcher",
                          input |-> [clientOk |-> clientOk, loginOk |-> loginOk],
                          local |-> o.hf,
                          err |-> o.err,
                          logins |-> hubFetcher.logins + (IF o.called THEN 1 ELSE 0)]
    /\ UNCHANGED <<modelVars, last, fatal, histVars, simple, callers, metrics, version, perceiver>>

\* a later call of login on the fetcher that NewHubFetcher handed out
CallLogin(loginOk) ==
    /\ hubFetcher.logins < MaxLoginCalls
    /\ hubFetcher.fetcher # Nil
    /\ LET o == login(hubFetcher.fetcher, loginOk)
       IN  hubFetcher' = [fetcher |-> o.hf,
                          op |-> "login",
                          input |-> [clientOk |-> TRUE, loginOk |-> loginOk],
                          local |-> o.hf,
                          err |-> o.err,
                          logins |-> hubFetcher.logins + (IF o.called THEN 1 ELSE 0)]
    /\ UNCHANGED <<modelVars, last, fatal, histVars, simple, callers, metrics, version, perceiver>>

InitHubFetcher ==
    /\ InitOver({1})
    /\ hubFetcher = [fetcher |-> Nil, op |-> "none", input |-> Nil, local |-> Nil,
                     err |-> NoError, logins |-> 0]
    /\ simple = Nil
    /\ callers = Nil
    /\ metrics = Nil
    /\ version = Nil
    /\ perceiver = Nil

NextHubFetcher ==
    \/ \E u \in {"sysadmin", "scanner", "perceptor"} :
       \E pw \in {"blackduck", "secret"} : \E b \in {"https://hub", "https://hub2"} :
         \E clientOk \in BOOLEAN : \E loginOk \in BOOLEAN :
            CallNewHubFetcher(u, pw, b, clientOk, loginOk)
    \/ \E loginOk \in BOOLEAN : CallLogin(loginOk)

SpecHubFetcher == InitHubFetcher /\ [][NextHubFetcher]_vars

----------------------------------------------------------------------------
(* Properties *)

Max(a, b) == IF a > b THEN a ELSE b

\* number of entries of queue q that hold sha
Occ(q, sha) == Cardinality({ k \in 1..Len(q) : q[k].Sha = sha })

ShasOf(q) == [k \in 1..Len(q) |-> q[k].Sha]

InProgressStatuses == {ScanStatusRunningScanClient, ScanStatusRunningHubScan}

CountInProgress(imgs) ==
    Cardinality({ sha \in DOMAIN imgs : imgs[sha].ScanStatus \in InProgressStatuses })

\* C1: in every reachable state each sha occurs at most once in the hub-check
\* queue and the scan queue taken together.
C1_AtMostOneQueueMembership ==
    \A sha \in AllShas :
        Occ(ImageHubCheckQueue, sha) + Occ(ImageScanQueue, sha) <= 1

\* both queues hold an image, and one in the scan queue is there after a scan error
C1_Witness ==
    /\ ~fatal
    /\ last.op = "errorRunningScanClient"
    /\ Len(ImageHubCheckQueue) > 0
    /\ Occ(ImageScanQueue, last.arg.Sha) = 1

\* C2 as stated: the number of records in RunningScanClient or RunningHubScan is
\* at most the limit given to NewModel, for every limit.
C2_InProgressAtMostLimit ==
    CountInProgress(Images) <= ConcurrentScanLimit

\* C2 as amended: the number of records in RunningScanClient or RunningHubScan is
\* at most the limit when the limit is not negative, and is zero when it is negative.
C2_InProgressAtMostLimitOrZero ==
    CountInProgress(Images) <= Max(ConcurrentScanLimit, 0)

\* the gate is closed with an image waiting: the scan dequeue returned nothing
C2_Witness ==
    /\ ~fatal
    /\ last.op = "getNextImageFromScanQueue"
    /\ last.ret = Nil
    /\ ConcurrentScanLimit >= 1
    /\ CountInProgress(Images) = ConcurrentScanLimit
    /\ Len(ImageScanQueue) > 0

\* C3: AddImage for a sha that already has a record, whatever the name given and
\* whatever the record's status, leaves Images, both queues and Pods unchanged and
\* does not panic; AddPod of a pod whose images all have records leaves Images and
\* both queues unchanged; every record of Images is the record of its own key.
C3_AddImageIdempotent ==
    [][ /\ (last'.op = "AddImage" /\ last'.arg.Sha \in DOMAIN Images)
           => (~fatal' /\ UNCHANGED modelVars)
        /\ (last'.op = "AddPod"
              /\ \A k \in 1..Len(last'.arg.Containers) :
                    last'.arg.Containers[k].Image.Sha \in DOMAIN Images)
           => (~fatal' /\ UNCHANGED <<Images, ImageScanQueue, ImageHubCheckQueue>>)
        /\ \A sha \in DOMAIN Images' : Images'[sha].ImageSha = sha
      ]_vars

\* AddImage was called under another name for an image whose scan is complete
C3_Witness ==
    /\ ~fatal
    /\ last.op = "AddImage"
    /\ last.arg.Sha \in DOMAIN Images
    /\ Images[last.arg.Sha].ImageName # last.arg.Name
    /\ Images[last.arg.Sha].ScanStatus = ScanStatusComplete

\* C4: the scan dequeue never returns an image that it returned before unless a
\* scan error was reported for it since; an image in RunningScanClient,
\* RunningHubScan or Complete is in no queue and counts as handed out.
C4_OneActiveScan ==
    [][ /\ (last'.op = "getNextImageFromScanQueue" /\ ~fatal' /\ last'.ret # Nil)
           => last'.ret.Sha \notin scanHandedOut
        /\ \A sha \in DOMAIN Images' :
             Images'[sha].ScanStatus \in InProgressStatuses \cup {ScanStatusComplete}
             => /\ Occ(ImageHubCheckQueue', sha) = 0
                /\ Occ(ImageScanQueue', sha) = 0
                /\ sha \in scanHandedOut'
      ]_vars

\* an image is handed out a second time, after a scan error, while another is complete
C4_Witness ==
    /\ ~fatal
    /\ last.op = "getNextImageFromScanQueue"
    /\ last.ret # Nil
    /\ errCount[last.ret.Sha] >= 1
    /\ \E sha \in DOMAIN Images : Images[sha].ScanStatus = ScanStatusComplete

\* C5: images leave the hub-check queue in the order of their first registration:
\* the images the hub-check dequeue has returned, followed by the images waiting in
\* the hub-check queue, are the registered images in registration order.
C5_HubCheckFifo ==
    hubReturned \o ShasOf(ImageHubCheckQueue) = regOrder

\* three images registered as 3, 1, 2 were returned as 3, 1, 2
C5_Witness ==
    /\ ~fatal
    /\ last.op = "getNextImageFromHubCheckQueue"
    /\ regOrder = <<3, 1, 2>>
    /\ hubReturned = <<3, 1, 2>>

\* C6: a scan-error report for an image in RunningScanClient does not panic, sets
\* the status to InQueue and changes nothing else of the record, appends the image
\* to the tail of the scan queue, leaves the hub-check queue alone and lowers the
\* in-progress count by one.
C6_ErrorRequeues ==
    [][ (/\ last'.op = "errorRunningScanClient"
         /\ last'.arg.Sha \in DOMAIN Images
         /\ Images[last'.arg.Sha].ScanStatus = ScanStatusRunningScanClient)
        => LET sha == last'.arg.Sha IN
           /\ ~fatal'
           /\ Images' = [Images EXCEPT ![sha].ScanStatus = ScanStatusInQueue]
           /\ ImageScanQueue' = Append(ImageScanQueue, image(Images[sha]))
           /\ ImageHubCheckQueue' = ImageHubCheckQueue
           /\ CountInProgress(Images') = CountInProgress(Images) - 1
      ]_vars

\* an image that failed MaxErrors times is handed out once more
C6_Witness ==
    /\ ~fatal
    /\ last.op = "getNextImageFromScanQueue"
    /\ last.ret # Nil
    /\ errCount[last.ret.Sha] = MaxErrors
    /\ Images[last.ret.Sha].ScanStatus = ScanStatusRunningScanClient

\* C7: DeletePod does not panic, removes the entry of the name from Pods when it
\* is there, leaves every other entry of Pods, the Images map and both queues
\* unchanged; for an absent name the whole model is unchanged.
C7_DeletePodFrame ==
    [][ last'.op = "DeletePod"
        => LET name == last'.arg.QualifiedName IN
           /\ ~fatal'
           /\ DOMAIN Pods' = (DOMAIN Pods) \ {name}
           /\ \A q \in DOMAIN Pods' : Pods'[q] = Pods[q]
           /\ UNCHANGED <<Images, ImageScanQueue, ImageHubCheckQueue, ConcurrentScanLimit>>
           /\ (name \notin DOMAIN Pods => UNCHANGED modelVars)
      ]_vars

\* the last pod was deleted and the records of its images are still there
C7_Witness ==
    /\ ~fatal
    /\ last.op = "DeletePod"
    /\ last.arg.present
    /\ DOMAIN Pods = {}
    /\ \E sha \in DOMAIN Images : Images[sha].ScanStatus = ScanStatusComplete
    /\ Len(ImageHubCheckQueue) + Len(ImageScanQueue) > 0

\* the container positions of pod name whose image is Complete with results
Counted(name) ==
    { k \in 1..Len(Pods[name].Containers) :
        LET sha == Pods[name].Containers[k].Image.Sha IN
        /\ sha \in DOMAIN Images
        /\ Images[sha].ScanStatus = ScanStatusComplete
        /\ Images[sha].ScanResults # Nil }

ResultsAt(name, k) == Images[Pods[name].Containers[k].Image.Sha].ScanResults

RECURSIVE PolicyViolationSum(_, _)
PolicyViolationSum(name, K) ==
    IF K = {} THEN 0
    ELSE LET k == CHOOSE x \in K : TRUE
         IN  ResultsAt(name, k).PolicyViolationCount + PolicyViolationSum(name, K \ {k})

RECURSIVE VulnerabilitySum(_, _)
VulnerabilitySum(name, K) ==
    IF K = {} THEN 0
    ELSE LET k == CHOOSE x \in K : TRUE
         IN  ResultsAt(name, k).VulnerabilityCount + VulnerabilitySum(name, K \ {k})

\* C8: for a pod of the model scanResults returns no error, and counts that are
\* the sums, one term per container, over the containers whose image is Complete
\* with results.
C8_AggregateCounts ==
    (~fatal /\ last.op = "scanResults" /\ last.arg.QualifiedName \in DOMAIN Pods)
    => LET name == last.arg.QualifiedName IN
       /\ last.ret.err = NoError
       /\ last.ret.policyViolationCount = PolicyViolationSum(name, Counted(name))
       /\ last.ret.vulnerabilityCount = VulnerabilitySum(name, Counted(name))

\* a pod of three containers, two of them the same image: 2+0+0 and 5+1+1
C8_Witness ==
    /\ ~fatal
    /\ last.op = "scanResults"
    /\ last.arg.QualifiedName \in DOMAIN Pods
    /\ Cardinality(Counted(last.arg.QualifiedName)) = 3
    /\ last.ret.policyViolationCount = 2
    /\ last.ret.vulnerabilityCount = 7

\* the container positions among Counted whose label is not the sentinel
Labelled(name) ==
    { k \in Counted(name) : ResultsAt(name, k).OverallStatus # "NOT_IN_VIOLATION" }

\* C9: for a pod of the model the overallStatus scanResults returns is the label
\* of the last container, in list order, whose image is Complete with results and
\* whose label is not "NOT_IN_VIOLATION", and is empty when there is none.
C9_OverallStatusLastWins ==
    (~fatal /\ last.op = "scanResults" /\ last.arg.QualifiedName \in DOMAIN Pods)
    => LET name == last.arg.QualifiedName
           K == Labelled(name)
       IN  last.ret.overallStatus =
             IF K = {} THEN ""
             ELSE ResultsAt(name, CHOOSE k \in K : \A j \in K : j <= k).OverallStatus

\* the first container's label is IN_VIOLATION and the answer is the later label
C9_Witness ==
    /\ ~fatal
    /\ last.op = "scanResults"
    /\ last.arg.QualifiedName \in DOMAIN Pods
    /\ 1 \in Labelled(last.arg.QualifiedName)
    /\ ResultsAt(last.arg.QualifiedName, 1).OverallStatus = "IN_VIOLATION"
    /\ last.ret.overallStatus = "IN_VIOLATION_OVERRIDDEN"

\* C10: scanResults for a name that is no key of Pods does not panic, returns an
\* error with zero counts and an empty status, and leaves the model unchanged.
C10_NotFound ==
    [][ (last'.op = "scanResults" /\ last'.arg.QualifiedName \notin DOMAIN Pods)
        => /\ ~fatal'
           /\ last'.ret.err # NoError
           /\ last'.ret.policyViolationCount = 0
           /\ last'.ret.vulnerabilityCount = 0
           /\ last'.ret.overallStatus = ""
           /\ UNCHANGED modelVars
      ]_vars

\* the query for an unknown pod failed while another pod is in the model
C10_Witness ==
    /\ ~fatal
    /\ last.op = "scanResults"
    /\ last.arg.QualifiedName \notin DOMAIN Pods
    /\ last.ret.err # NoError
    /\ DOMAIN Pods # {}

\* the shas of the images of the containers of pod p
ShasOfPod(p) == { p.Containers[k].Image.Sha : k \in 1..Len(p.Containers) }

\* C11: after SetAllPods(S) the keys of Pods are exactly the names of the pods of
\* S and each holds the snapshot of S, every image of every pod of S has a record,
\* and every record there was before the call is still there, unchanged.
C11_SetAllPodsResync ==
    [][ last'.op = "SetAllPods"
        => LET S == last'.arg.pods IN
           /\ ~fatal'
           /\ DOMAIN Pods' = { S[k].QualifiedName : k \in 1..Len(S) }
           /\ \A k \in 1..Len(S) : Pods'[S[k].QualifiedName] = S[k]
           /\ \A k \in 1..Len(S) : ShasOfPod(S[k]) \subseteq DOMAIN Images'
           /\ \A sha \in DOMAIN Images :
                 sha \in DOMAIN Images' /\ Images'[sha] = Images[sha]
      ]_vars

\* the model held pods a and b, the payload was b and c: a is gone, c is there,
\* and image 1, that only pod a referenced, kept its record
C11_Witness ==
    /\ ~fatal
    /\ last.op = "SetAllPods"
    /\ last.arg.before = {"ns/a", "ns/b"}
    /\ DOMAIN Pods = {"ns/b", "ns/c"}
    /\ 1 \in DOMAIN Images
    /\ \A n \in DOMAIN Pods : 1 \notin ShasOfPod(Pods[n])
    /\ 3 \in DOMAIN Images

\* C12: getNextImageFromScanQueue called while the in-progress count is at or
\* above the limit (a limit of 0 or less included) or while the scan queue is
\* empty, and getNextImageFromHubCheckQueue called while the hub-check queue is
\* empty, return nil without a panic and leave Pods, Images and both queues unchanged.
C12_EmptyDequeueNoOp ==
    [][ /\ (/\ last'.op = "getNextImageFromScanQueue"
            /\ \/ CountInProgress(Images) >= ConcurrentScanLimit
               \/ Len(ImageScanQueue) = 0)
           => (~fatal' /\ last'.ret = Nil /\ UNCHANGED modelVars)
        /\ (last'.op = "getNextImageFromHubCheckQueue" /\ Len(ImageHubCheckQueue) = 0)
           => (~fatal' /\ last'.ret = Nil /\ UNCHANGED modelVars)
      ]_vars

\* the scan dequeue returned nothing under a limit of 0 or less, an image waiting
C12_Witness ==
    /\ ~fatal
    /\ last.op = "getNextImageFromScanQueue"
    /\ last.ret = Nil
    /\ ConcurrentScanLimit <= 0
    /\ CountInProgress(Images) = 0
    /\ Len(ImageScanQueue) > 0

\* sha has no record, or its record's status is none of statuses
NotIn(sha, statuses) ==
    sha \notin DOMAIN Images \/ Images[sha].ScanStatus \notin statuses

\* C13: addImageToHubCheckQueue, addImageToScanQueue, errorRunningScanClient and
\* finishRunningScanClient called for an image without a record or with a status
\* that is not a precondition status of the operation, and the two dequeues when
\* the image they are about to return is such an image, panic, and Pods, Images and
\* both queues are then what they were before the call.
C13_PanicOnBadPrecondition ==
    [][ ( \/ /\ last'.op = "addImageToHubCheckQueue"
             /\ NotIn(last'.arg.Sha, {ScanStatusUnknown, ScanStatusError})
          \/ /\ last'.op = "addImageToScanQueue"
             /\ NotIn(last'.arg.Sha, {ScanStatusCheckingHub, ScanStatusError})
          \/ /\ last'.op = "getNextImageFromHubCheckQueue"
             /\ Len(ImageHubCheckQueue) > 0
             /\ NotIn(ImageHubCheckQueue[1].Sha, {ScanStatusInHubCheckQueue})
          \/ /\ last'.op = "getNextImageFromScanQueue"
             /\ CountInProgress(Images) < ConcurrentScanLimit
             /\ Len(ImageScanQueue) > 0
             /\ NotIn(ImageScanQueue[1].Sha, {ScanStatusInQueue})
          \/ /\ last'.op = "errorRunningScanClient"
             /\ NotIn(last'.arg.Sha, {ScanStatusRunningScanClient})
          \/ /\ last'.op = "finishRunningScanClient"
             /\ NotIn(last'.arg.Sha, {ScanStatusRunningScanClient}) )
        => (fatal' /\ UNCHANGED modelVars)
      ]_vars

\* a scan error was reported for an image whose scan had been reported finished
C13_Witness ==
    /\ fatal
    /\ last.op = "errorRunningScanClient"
    /\ last.arg.Sha \in DOMAIN Images
    /\ Images[last.arg.Sha].ScanStatus = ScanStatusRunningHubScan
    /\ Len(ImageHubCheckQueue) + Len(ImageScanQueue) > 0

\* C14: in every reachable state an image is in the hub-check queue exactly when
\* its record's status is InHubCheckQueue and in the scan queue exactly when its
\* record's status is InQueue, and every queue element is the image of a record.
C14_StatusReflectsQueues ==
    /\ \A sha \in AllShas :
          /\ Occ(ImageHubCheckQueue, sha) >= 1
                <=> (sha \in DOMAIN Images
                       /\ Images[sha].ScanStatus = ScanStatusInHubCheckQueue)
          /\ Occ(ImageScanQueue, sha) >= 1
                <=> (sha \in DOMAIN Images
                       /\ Images[sha].ScanStatus = ScanStatusInQueue)
    /\ \A k \in 1..Len(ImageHubCheckQueue) :
          /\ ImageHubCheckQueue[k].Sha \in DOMAIN Images
          /\ ImageHubCheckQueue[k] = image(Images[ImageHubCheckQueue[k].Sha])
    /\ \A k \in 1..Len(ImageScanQueue) :
          /\ ImageScanQueue[k].Sha \in DOMAIN Images
          /\ ImageScanQueue[k] = image(Images[ImageScanQueue[k].Sha])

\* one image was just moved to the scan queue while another waits for its hub check
C14_Witness ==
    /\ ~fatal
    /\ last.op = "addImageToScanQueue"
    /\ Occ(ImageScanQueue, last.arg.Sha) = 1
    /\ Len(ImageHubCheckQueue) > 0

\* the images of the containers cs that have no record, each once, in list order
Fresh(cs) ==
    LET first == SelectSeq([k \in 1..Len(cs) |-> [Image |-> cs[k].Image, k |-> k]],
                   LAMBDA e : /\ e.Image.Sha \notin DOMAIN Images
                              /\ \A j \in 1..(e.k - 1) : cs[j].Image.Sha # e.Image.Sha)
    IN  [k \in 1..Len(first) |-> first[k].Image]

\* C15: AddPod does not panic; afterwards Pods holds the given pod under its
\* qualified name and every other entry as before, every container image has a
\* record, the images that had none are appended to the hub-check queue in
\* container order with status InHubCheckQueue, the scan queue is unchanged, and
\* every record there was before, of images of a replaced snapshot as well, is unchanged.
C15_AddPodReplaces ==
    [][ last'.op = "AddPod"
        => LET name == last'.arg.QualifiedName
               cs == last'.arg.Containers
           IN  /\ ~fatal'
               /\ DOMAIN Pods' = (DOMAIN Pods) \cup {name}
               /\ Pods'[name] = [QualifiedName |-> name, Containers |-> cs]
               /\ \A q \in (DOMAIN Pods) \ {name} : Pods'[q] = Pods[q]
               /\ \A k \in 1..Len(cs) : cs[k].Image.Sha \in DOMAIN Images'
               /\ ImageHubCheckQueue' = ImageHubCheckQueue \o Fresh(cs)
               /\ \A k \in 1..Len(Fresh(cs)) :
                     /\ Images'[Fresh(cs)[k].Sha].ScanStatus = ScanStatusInHubCheckQueue
                     /\ Images'[Fresh(cs)[k].Sha].ImageName = Fresh(cs)[k].Name
               /\ \A sha \in DOMAIN Images :
                     sha \in DOMAIN Images' /\ Images'[sha] = Images[sha]
               /\ ImageScanQueue' = ImageScanQueue
      ]_vars

\* a snapshot of pod c replaced the one with images 3 and 2, that were queued in
\* that order; image 3, in no pod any more, has its record
C15_Witness ==
    /\ ~fatal
    /\ last.op = "AddPod"
    /\ last.arg.replaced # Nil
    /\ ShasOfPod(last.arg.replaced) \ ShasOfPod(last.arg) = {3}
    /\ \A n \in DOMAIN Pods : 3 \notin ShasOfPod(Pods[n])
    /\ 3 \in DOMAIN Images
    /\ ShasOf(ImageHubCheckQueue) = <<3, 2>>

\* C16: the analysis-complete report for an image in RunningHubScan does not
\* panic, sets its status to Complete and its ScanResults to the results given,
\* changes no other record and no queue, and lowers the in-progress count by one;
\* in every state a record with ScanResults has the status Complete; and a record
\* whose status is Complete has the status Complete after every step.
C16_AnalysisComplete ==
    [][ /\ (/\ last'.op = "finishRunningHubScan"
            /\ last'.arg.image.Sha \in DOMAIN Images
            /\ Images[last'.arg.image.Sha].ScanStatus = ScanStatusRunningHubScan)
           => LET sha == last'.arg.image.Sha IN
              /\ ~fatal'
              /\ Images' = [Images EXCEPT ![sha].ScanStatus = ScanStatusComplete,
                                          ![sha].ScanResults = last'.arg.results]
              /\ UNCHANGED <<Pods, ImageScanQueue, ImageHubCheckQueue>>
              /\ CountInProgress(Images') = CountInProgress(Images) - 1
        /\ \A sha \in DOMAIN Images' :
              Images'[sha].ScanResults # Nil
              => Images'[sha].ScanStatus = ScanStatusComplete
        /\ \A sha \in DOMAIN Images :
              Images[sha].ScanStatus = ScanStatusComplete
              => (sha \in DOMAIN Images'
                    /\ Images'[sha].ScanStatus = ScanStatusComplete)
      ]_vars

\* the analysis of an image was reported complete with results, which its record holds
C16_Witness ==
    /\ ~fatal
    /\ last.op = "finishRunningHubScan"
    /\ last.arg.results # Nil
    /\ Images[last.arg.image.Sha].ScanStatus = ScanStatusComplete
    /\ Images[last.arg.image.Sha].ScanResults = last.arg.results
    /\ CountInProgress(Images) = 0

\* C17: no step removes a key of Images: the shas that have a record before a
\* step have one after it.
C17_RecordsNeverDeleted ==
    [][ (DOMAIN Images) \subseteq (DOMAIN Images') ]_vars

\* the last pod was deleted after the analysis of all its images was complete:
\* nothing references or queues the images, and their records are there
C17_Witness ==
    /\ ~fatal
    /\ last.op = "DeletePod"
    /\ last.arg.present
    /\ DOMAIN Pods = {}
    /\ DOMAIN Images = Shas
    /\ \A sha \in Shas : Images[sha].ScanStatus = ScanStatusComplete

\* the status of sha in the records imgs, "none" when it has no record
StatusIn(imgs, sha) ==
    IF sha \in DOMAIN imgs THEN imgs[sha].ScanStatus ELSE "none"

\* C18: a step changes the status of an image only along these edges: no record
\* to InHubCheckQueue by AddImage or AddPod (or the bulk replace built on them);
\* InHubCheckQueue to CheckingHub by the hub-check dequeue, for the head of its
\* queue; CheckingHub to InQueue by addImageToScanQueue for that image; InQueue to
\* RunningScanClient by the scan dequeue, for the head of its queue;
\* RunningScanClient to RunningHubScan by finishRunningScanClient for that image,
\* the queues unchanged; RunningScanClient to InQueue (through Error) by
\* errorRunningScanClient for that image.  The analysis-complete report, which is
\* no operation of model.go, changes RunningHubScan to Complete only.  No record
\* has the status Unknown or Error after a step.
C18_StatusEdges ==
    [][ /\ \A sha \in AllShas :
              LET before == StatusIn(Images, sha)
                  after == StatusIn(Images', sha)
              IN  before # after
                  => \/ /\ before = "none" /\ after = ScanStatusInHubCheckQueue
                        /\ last'.op \in {"AddImage", "AddPod", "SetAllPods"}
                     \/ /\ before = ScanStatusInHubCheckQueue /\ after = ScanStatusCheckingHub
                        /\ last'.op = "getNextImageFromHubCheckQueue"
                        /\ ImageHubCheckQueue[1].Sha = sha
                     \/ /\ before = ScanStatusCheckingHub /\ after = ScanStatusInQueue
                        /\ last'.op = "addImageToScanQueue"
                        /\ last'.arg.Sha = sha
                     \/ /\ before = ScanStatusInQueue /\ after = ScanStatusRunningScanClient
                        /\ last'.op = "getNextImageFromScanQueue"
                        /\ ImageScanQueue[1].Sha = sha
                     \/ /\ before = ScanStatusRunningScanClient /\ after = ScanStatusRunningHubScan
                        /\ last'.op = "finishRunningScanClient"
                        /\ last'.arg.Sha = sha
                        /\ UNCHANGED <<ImageScanQueue, ImageHubCheckQueue>>
                     \/ /\ before = ScanStatusRunningScanClient /\ after = ScanStatusInQueue
                        /\ last'.op = "errorRunningScanClient"
                        /\ last'.arg.Sha = sha
                     \/ /\ before = ScanStatusRunningHubScan /\ after = ScanStatusComplete
                        /\ last'.op = "finishRunningHubScan"
                        /\ last'.arg.image.Sha = sha
        /\ \A sha \in DOMAIN Images' :
              Images'[sha].ScanStatus \notin {ScanStatusUnknown, ScanStatusError}
      ]_vars

\* an image went from registration to a scan, failed once and is handed out
\* again, while the other image is at its hub check
C18_Witness ==
    /\ ~fatal
    /\ last.op = "getNextImageFromScanQueue"
    /\ last.ret # Nil
    /\ errCount[last.ret.Sha] = 1
    /\ Images[last.ret.Sha].ScanStatus = ScanStatusRunningScanClient
    /\ \E sha \in DOMAIN Images : Images[sha].ScanStatus = ScanStatusCheckingHub

\* C19 as stated: after a scan-error report for an image in RunningScanClient the
\* image's status is InHubCheckQueue and the image is the last element of the
\* hub-check queue.
C19_ErrorToHubCheckQueue ==
    [][ (/\ last'.op = "errorRunningScanClient"
         /\ last'.arg.Sha \in DOMAIN Images
         /\ Images[last'.arg.Sha].ScanStatus = ScanStatusRunningScanClient)
        => /\ Images'[last'.arg.Sha].ScanStatus = ScanStatusInHubCheckQueue
           /\ Len(ImageHubCheckQueue') > 0
           /\ ImageHubCheckQueue'[Len(ImageHubCheckQueue')].Sha = last'.arg.Sha
      ]_vars

\* C19 as amended: after a scan-error report for an image in RunningScanClient the
\* image's status is InQueue, the image is the last element of the scan queue and
\* is no element of the hub-check queue, which is as it was before the report.
C19_ErrorToScanQueue ==
    [][ (/\ last'.op = "errorRunningScanClient"
         /\ last'.arg.Sha \in DOMAIN Images
         /\ Images[last'.arg.Sha].ScanStatus = ScanStatusRunningScanClient)
        => /\ Images'[last'.arg.Sha].ScanStatus = ScanStatusInQueue
           /\ Len(ImageScanQueue') > 0
           /\ ImageScanQueue'[Len(ImageScanQueue')].Sha = last'.arg.Sha
           /\ Occ(ImageHubCheckQueue', last'.arg.Sha) = 0
           /\ ImageHubCheckQueue' = ImageHubCheckQueue
      ]_vars

\* the failed image stands in the scan queue behind the image that waited there
C19_Witness ==
    /\ ~fatal
    /\ last.op = "errorRunningScanClient"
    /\ Len(ImageScanQueue) = 2
    /\ ImageScanQueue[2].Sha = last.arg.Sha
    /\ Images[last.arg.Sha].ScanStatus = ScanStatusInQueue
    /\ Len(ImageHubCheckQueue) = 0

\* the step is a report (scan error, scan finished, analysis complete) for sha
ReportedOn(sha) ==
    \/ /\ last'.op \in {"errorRunningScanClient", "finishRunningScanClient"}
       /\ last'.arg.Sha = sha
    \/ /\ last'.op = "finishRunningHubScan"
       /\ last'.arg.image.Sha = sha

\* C20: an image in RunningScanClient or RunningHubScan keeps its status over
\* every step that is not a report for that image, whatever the operation; and
\* while the images in these statuses are as many as the limit or more, the scan
\* dequeue returns nil and hands out no image.
C20_LeakedScansStay ==
    [][ /\ \A sha \in DOMAIN Images :
              (Images[sha].ScanStatus \in InProgressStatuses /\ ~ReportedOn(sha))
              => /\ sha \in DOMAIN Images'
                 /\ Images'[sha].ScanStatus = Images[sha].ScanStatus
        /\ (/\ last'.op = "getNextImageFromScanQueue"
            /\ CountInProgress(Images) >= ConcurrentScanLimit)
           => /\ last'.ret = Nil
              /\ CountInProgress(Images') = CountInProgress(Images)
              /\ ImageScanQueue' = ImageScanQueue
      ]_vars

\* an image whose scan is running was registered again, under another name, while
\* an image waits in the scan queue: its record still says RunningScanClient
C20_Witness ==
    /\ ~fatal
    /\ last.op = "AddImage"
    /\ last.arg.Sha \in DOMAIN Images
    /\ Images[last.arg.Sha].ScanStatus = ScanStatusRunningScanClient
    /\ Images[last.arg.Sha].ImageName # last.arg.Name
    /\ CountInProgress(Images) = ConcurrentScanLimit
    /\ Len(ImageScanQueue) > 0

\* C21: the scan queue changes at its two ends only: addImageToScanQueue and the
\* scan-error report put their image behind every image waiting, the scan dequeue
\* returns the image at the head and removes it, the others keeping their order,
\* and no other step changes the queue; so images are returned in the order in
\* which they were appended.
C21_ScanQueueFifo ==
    [][ IF last'.op \in {"addImageToScanQueue", "errorRunningScanClient"} /\ ~fatal'
        THEN ImageScanQueue' = Append(ImageScanQueue, image(Images[last'.arg.Sha]))
        ELSE IF last'.op = "getNextImageFromScanQueue" /\ ~fatal' /\ last'.ret # Nil
        THEN /\ Len(ImageScanQueue) > 0
             /\ last'.ret = Head(ImageScanQueue)
             /\ ImageScanQueue' = Tail(ImageScanQueue)
        ELSE ImageScanQueue' = ImageScanQueue
      ]_vars

\* an image failed while two others waited: it stands third in the scan queue
C21_Witness ==
    /\ ~fatal
    /\ last.op = "errorRunningScanClient"
    /\ Len(ImageScanQueue) = 3
    /\ ImageScanQueue[3].Sha = last.arg.Sha
    /\ errCount[last.arg.Sha] >= 1

\* the two variants hold the same pods, records, scan queue and limit, and no
\* image of the Model with the hub-check stage is waiting for its hub check
Related ==
    /\ simple.Pods = Pods
    /\ simple.ConcurrentScanLimit = ConcurrentScanLimit
    /\ simple.ImageScanQueue = ImageScanQueue
    /\ ImageHubCheckQueue = << >>
    /\ DOMAIN simple.Images = { image(Images[sha]) : sha \in DOMAIN Images }
    /\ \A sha \in DOMAIN Images :
          /\ simple.Images[image(Images[sha])].ScanStatus = Images[sha].ScanStatus
          /\ simple.Images[image(Images[sha])].ScanResults = Images[sha].ScanResults

\* the scan dequeue is called with an image waiting and the limit reached
AtLimit ==
    /\ last'.op = "getNextImageFromScanQueue"
    /\ Len(ImageScanQueue) > 0
    /\ CountInProgress(Images) >= ConcurrentScanLimit

C23_SerializedCallsAreSafe ==
    callers.serialized
    => /\ ~(callers.ret[1] \in RaceImage /\ callers.ret[1] = callers.ret[2])
       /\ CountInProgress(Images) <= ConcurrentScanLimit
       /\ ~fatal

\* not serialized, both callers have returned, and with the same image
C23_Witness ==
    /\ ~callers.serialized
    /\ ~fatal
    /\ \A c \in Callers : callers.pc[c] = "idle"
    /\ callers.ret[1] \in RaceImage
    /\ callers.ret[1] = callers.ret[2]

ProjectionOps ==
    {"scanResults", "inProgressScanJobs", "inProgressScanCount", "inProgressHubScans"}

StatusGaugeKeys(g) == { k \in DOMAIN g : k.name = "image_status" }

RECURSIVE GaugeSum(_, _)
GaugeSum(g, keys) ==
    IF keys = {} THEN 0
    ELSE LET k == CHOOSE x \in keys : TRUE
         IN  g[k] + GaugeSum(g, keys \ {k})

\* C24: a step of scanResults, inProgressScanJobs, inProgressScanCount,
\* inProgressHubScans or of the metrics object leaves the pods, the image
\* records with their statuses and both queues as they were, and the per-status
\* image counts that generateStatusMetrics sets add up to the number of image
\* records of the model it read.
C24_ProjectionsReadOnly ==
    [][ /\ (last'.op \in ProjectionOps \/ metrics' # metrics)
           => UNCHANGED <<Pods, Images, ImageScanQueue, ImageHubCheckQueue>>
        /\ (metrics.goroutine = "generate" /\ metrics'.goroutine = "sleep")
           => /\ metrics'.latestModel = metrics.latestModel
              /\ GaugeSum(metrics'.statusGauge, StatusGaugeKeys(metrics'.statusGauge))
                    = Cardinality(DOMAIN metrics.latestModel.Images)
              /\ metrics'.statusGauge[[name |-> "number_of_images", of |-> ""]]
                    = Cardinality(DOMAIN metrics.latestModel.Images) ]_vars

\* the metrics were generated from a model with two images of one status, and
\* the in-progress scan jobs were then read while a scan was running
C24_Witness ==
    /\ ~fatal
    /\ metrics.goroutine = "sleep"
    /\ Cardinality(DOMAIN metrics.latestModel.Images) = 2
    /\ Cardinality(StatusGaugeKeys(metrics.statusGauge)) = 1
    /\ last.op = "inProgressScanJobs"
    /\ last.ret.shas # {}

\* C25: after setup, generateStatusMetrics is called again and again: at every
\* point of a run in which the goroutine of setup is scheduled, another call of
\* generateStatusMetrics is still to come.
C25_GeneratedPeriodically == []<>(metrics.goroutine = "generate")

\* C26: while the callers keep to the protocol no operation panics, and the
\* head of each queue has a record whose status is that of its queue.
C26_ProtocolNeverPanics ==
    /\ ~fatal
    /\ ImageScanQueue # << >>
       => /\ Head(ImageScanQueue).Sha \in DOMAIN Images
          /\ Images[Head(ImageScanQueue).Sha].ScanStatus = ScanStatusInQueue
    /\ ImageHubCheckQueue # << >>
       => /\ Head(ImageHubCheckQueue).Sha \in DOMAIN Images
          /\ Images[Head(ImageHubCheckQueue).Sha].ScanStatus = ScanStatusInHubCheckQueue

\* a scan that the callers held was reported failed while they hold an image
\* from the hub-check dequeue and another waits for its hub check
C26_Witness ==
    /\ ~fatal
    /\ last.op = "errorRunningScanClient"
    /\ callers.scan = {}
    /\ callers.hub # {}
    /\ ImageScanQueue # << >>
    /\ ImageHubCheckQueue # << >>

\* C27: after an operation has returned, no image record has the status Unknown
\* or Error.
C27_ErrorAndUnknownTransient ==
    ~fatal => \A sha \in DOMAIN Images :
                 Images[sha].ScanStatus \notin {ScanStatusUnknown, ScanStatusError}

\* an image has failed MaxErrors times and is queued for a scan again, and
\* another image was registered and waits for its hub check
C27_Witness ==
    /\ ~fatal
    /\ last.op = "errorRunningScanClient"
    /\ errCount[last.arg.Sha] = MaxErrors
    /\ Images[last.arg.Sha].ScanStatus = ScanStatusInQueue
    /\ \E sha \in DOMAIN Images : Images[sha].ScanStatus = ScanStatusInHubCheckQueue

\* C28: with a limit of at least one, when the scan dequeue is polled again and
\* again and every image handed out is reported failed or finished and then
\* completed, an image that is in the scan queue is eventually returned by
\* getNextImageFromScanQueue.
C28_NoStarvation ==
    \A s \in FifoShas :
       (ConcurrentScanLimit >= 1 /\ s \in { ImageScanQueue[k].Sha : k \in 1..Len(ImageScanQueue) })
       ~> (/\ last.op = "getNextImageFromScanQueue"
           /\ last.ret # Nil
           /\ last.ret.Sha = s)

\* image 1 is handed out while image 3, which has failed MaxErrors times in a
\* row, waits in the scan queue again
C28_Witness ==
    /\ ~fatal
    /\ last.op = "getNextImageFromScanQueue"
    /\ last.ret # Nil
    /\ last.ret.Sha = 1
    /\ errCount[3] = MaxErrors
    /\ ShasOf(ImageScanQueue) = << 3 >>

DoneStatuses ==
    {"ERROR", "ERROR_BUILDING_BOM", "ERROR_MATCHING", "ERROR_SAVING_SCAN_DATA",
     "ERROR_SCANNING", "CANCELLED", "COMPLETE"}

\* C29: IsImageScanDone returns true exactly when the version has at least one
\* code location, every code location has at least one scan summary, and the
\* status of every scan summary is one of ERROR, ERROR_BUILDING_BOM,
\* ERROR_MATCHING, ERROR_SAVING_SCAN_DATA, ERROR_SCANNING, CANCELLED, COMPLETE.
C29_DoneExactlyWhenAllSummariesFinal ==
    version.called
    => (version.ret
        <=> /\ Len(version.v.CodeLocations) >= 1
            /\ \A k \in 1..Len(version.v.CodeLocations) :
                  LET summaries == version.v.CodeLocations[k].ScanSummaries
                  IN  /\ Len(summaries) >= 1
                      /\ \A j \in 1..Len(summaries) : summaries[j].Status \in DoneStatuses)

\* the answer was true for a version of two code locations whose scan summaries
\* have different final statuses
C29_Witness ==
    /\ version.called
    /\ version.ret
    /\ Len(version.v.CodeLocations) = 2
    /\ version.v.CodeLocations[1].ScanSummaries[1].Status = "CANCELLED"
    /\ version.v.CodeLocations[2].ScanSummaries[1].Status = "ERROR_MATCHING"

\* C30: after an iteration of one of the three loops whose exchange with the
\* core failed (transport error, or a response whose status is not 200), the
\* failure is logged and the perceiver is still running.
C30_FailedExchangeGoesOn ==
    perceiver.exchange.outcome \in {"transportError", "status500"}
    => /\ perceiver.log = "failed"
       /\ ~perceiver.crashed

\* C31: NewHubFetcher returns a fetcher, logged in and without error, exactly
\* when the client was created and the login succeeded, and otherwise an error
\* and no fetcher; after a failed login the fetcher of the call is not logged
\* in; a call of login on a logged-in fetcher makes no call of the client.
C31_FetcherOnlyWhenLoggedIn ==
    [][ /\ (hubFetcher'.op = "NewHubFetcher" /\ hubFetcher' # hubFetcher)
           => /\ (hubFetcher'.fetcher # Nil /\ hubFetcher'.fetcher.isLoggedIn)
                   <=> (hubFetcher'.input.clientOk /\ hubFetcher'.input.loginOk)
              /\ (hubFetcher'.fetcher # Nil) <=> (hubFetcher'.err = NoError)
              /\ (hubFetcher'.input.clientOk /\ ~hubFetcher'.input.loginOk)
                   => /\ ~hubFetcher'.local.isLoggedIn
                      /\ hubFetcher'.logins = hubFetcher.logins + 1
        /\ (hubFetcher'.op = "login" /\ hubFetcher' # hubFetcher /\ hubFetcher.fetcher.isLoggedIn)
           => /\ hubFetcher'.logins = hubFetcher.logins
              /\ hubFetcher'.err = NoError
              /\ hubFetcher'.fetcher = hubFetcher.fetcher ]_vars

\* login was called on the fetcher that NewHubFetcher handed out, with a client
\* that would have refused, after an earlier NewHubFetcher had failed to log in
C31_Witness ==
    /\ hubFetcher.op = "login"
    /\ ~hubFetcher.input.loginOk
    /\ hubFetcher.fetcher.isLoggedIn
    /\ hubFetcher.err = NoError
    /\ hubFetcher.logins = 2

====
